---- MODULE Spec2Model ----
(***************************************************************************)
(* Control resolution and step execution of the UFO AppAgent processor     *)
(* (src/ufo/agents/processors/app_agent_processor.py), the application     *)
(* closer (src/ufo/utils/app_safe_closer.py) and the batch client          *)
(* (src/ufo/module/client.py).                                             *)
(*                                                                         *)
(* The specifications of the module:                                       *)
(*   Spec           one session of steps of AppAgentProcessor: the states  *)
(*                  of a step, the retry loop of get_response,             *)
(*                  execute_action with its evidence screenshot, and       *)
(*                  update_memory;                                         *)
(*   SpecFilter     get_filtered_annotation_dict as called by              *)
(*                  capture_screenshot, on drawn dictionaries and stages;  *)
(*   SpecRange      _get_excel_range_coordinates, on drawn windows, cell   *)
(*                  controls and range arguments;                          *)
(*   SpecRangeAnyIntegers  the same, for range arguments of any sign and   *)
(*                  windows down to one pixel;                             *)
(*   SpecSynthetic  both paths of _get_excel_range_coordinates on a        *)
(*                  synthetic worksheet window;                            *)
(*   SpecLayout     the scan of _detect_excel_interface_layout on drawn    *)
(*                  header spacings;                                       *)
(*   SpecCache      _detect_excel_interface_layout and                     *)
(*                  clear_excel_layout_cache of two processors over time;  *)
(*   SpecColumns    _col_num_to_letter and _col_letter_to_num;             *)
(*   SpecCloser     AppCloser.terminate_application_processes;             *)
(*   SpecSaveClose  save_and_close_app over the running processes;         *)
(*   SpecClient     UFOClientManager.run_all: the main loop and the        *)
(*                  upload tasks of the worker pool;                       *)
(*   SpecResponse   the retry loop of get_response, one model call at a    *)
(*                  time, and the Cost of the step record;                 *)
(*   SpecApi        _get_api_affected_coordinates on drawn functions and   *)
(*                  args;                                                  *)
(*   SpecInfer      _infer_cell_position on one control;                   *)
(*   SpecConfig     capture_screenshot on the shared CONTROL_LIST;         *)
(*   SpecRecord     update_memory: the record of a step in the agent       *)
(*                  memory and in the structural log.                      *)
(* BaseProcessor (process, exception_capture), ActionSequence, MemoryItem   *)
(* and the ControlFilterFactory are modelled after the engine's written    *)
(* specification (sections 3, 4.4, 4.7, 4.8 and 7); the definitions that   *)
(* do so say it.                                                           *)
(***************************************************************************)
EXTENDS Integers, Sequences, FiniteSets, TLC

VARIABLES
    \* ---- the step processor (Spec) ----
    pc,              \* the state of the step about to run, or "done"
    sessionStep,     \* session_step of the step in progress
    entered,         \* states entered in this step, in order
    raisedIn,        \* the state whose body raised in this step, or "none"
    errorTb,         \* keys of self._exeception_traceback
    escaped,         \* an exception propagated out of the step processor
    status,          \* self.status
    memory,          \* records added to the agent memory (app_agent.add_memory)
    log,             \* records added to the session's structural log
    annotationDict,  \* number of labelled controls, labels 1..n; -1 is None
    cleanShot,       \* the clean screenshot file exists at screenshot_save_path
    controlLabel,    \* self._control_label; 0 when not yet parsed
    operation,       \* self._operation
    responseParses,  \* self._response parses as the structured format
    allFailed,       \* every response of this step's get_response failed to parse
    modelCalls,      \* calls of app_agent.get_response made in this step
    actionResult,    \* the OneStepAction's outcome after execute_all
    evidence,        \* the path that wrote the selected-controls image
    apiCoords,       \* rectangles _get_api_affected_coordinates returned; -1 before
    appClosed,       \* the application window was closed during the action
    \* ---- the control filter (SpecFilter) ----
    fIn,             \* inputs of get_filtered_annotation_dict
    fOut,            \* its outcome, and what capture_screenshot made of it
    \* ---- the cell-range coordinate resolver (SpecRange) ----
    rIn,             \* window, API annotation dictionary, layout, arguments
    rOut,            \* outcome of _get_excel_range_coordinates
    \* ---- the layout detection (SpecLayout) ----
    dIn,             \* window and its descendants
    dOut,            \* outcome of the scan of _detect_excel_interface_layout
    \* ---- both paths of the resolver on a synthetic window (SpecSynthetic) ----
    sIn,             \* the measures of the synthetic window, and the range
    sOut,            \* the rectangle of each path
    \* ---- the layout cache (SpecCache) ----
    now,             \* time.time(), in seconds
    layoutCache,     \* AppAgentProcessor._excel_layout_cache, by window
    cacheTimestamp,  \* _cache_timestamp as each processor reads it
    lastClear,       \* time of the latest clear_excel_layout_cache, -1 if none
    cOut,            \* outcome of the latest _detect_excel_interface_layout
    \* ---- column letters (SpecColumns) ----
    nIn,             \* a column number
    nOut,            \* its letters, and the conversions back and forth
    \* ---- the application closer (SpecCloser) ----
    kIn,             \* the AppCloser, the libraries loaded, the target processes
    kOut,            \* position in terminate_application_processes, what was sent
    \* ---- save_and_close_app (SpecSaveClose) ----
    vIn,             \* the application asked for, the processes running, the libraries
    vOut,            \* position in save_and_close_app, the PID found, what was sent
    \* ---- UFOClientManager.run_all (SpecClient) ----
    bIn,             \* the batch: number of sessions and the UPLOAD / MONITOR configuration
    bOut,            \* the main loop, the session runs and the upload tasks of the pool
    \* ---- the retry loop of get_response (SpecResponse) ----
    gIn,             \* what the model answers: which responses parse, which call raises, the cost of each call
    gOut,            \* the loop of get_response and the Cost of the step record
    \* ---- _get_api_affected_coordinates (SpecApi) ----
    aIn,             \* the executed action (function, args) and what the window shows
    aOut,            \* the outcome of the call: raised, or the list returned
    \* ---- capture_screenshot and the shared configuration (SpecConfig) ----
    configs,         \* the shared configuration: CONTROL_BACKEND and CONTROL_LIST
    uOut,            \* the calls of capture_screenshot so far and what the last one did
    \* ---- _infer_cell_position (SpecInfer) ----
    eIn,             \* a control (text, rectangle), the window and the layout
    eOut,            \* the position inferred for the control
    \* ---- update_memory and the records of a step (SpecRecord) ----
    memoryItems,     \* the MemoryItem objects of the steps, by identity
    agentMemory,     \* the agent memory: the identities of the items added
    structuralLogs,  \* the structural log of the session: the dictionaries added
    blackboard       \* the trajectories of the blackboard

stepVars == <<pc, sessionStep, entered, raisedIn, errorTb, escaped, status, memory,
              log, annotationDict, cleanShot, controlLabel, operation,
              responseParses, allFailed, modelCalls, actionResult, evidence,
              apiCoords, appClosed>>
filterVars == <<fIn, fOut>>
rangeVars == <<rIn, rOut>>
layoutVars == <<dIn, dOut>>
synthVars == <<sIn, sOut>>
cacheVars == <<now, layoutCache, cacheTimestamp, lastClear, cOut>>
colVars == <<nIn, nOut>>
closerVars == <<kIn, kOut>>
saveVars == <<vIn, vOut>>
clientVars == <<bIn, bOut>>
responseVars == <<gIn, gOut>>
apiVars == <<aIn, aOut>>
configVars == <<configs, uOut>>
inferVars == <<eIn, eOut>>
recordVars == <<memoryItems, agentMemory, structuralLogs, blackboard>>
vars ==
    <<stepVars, filterVars, rangeVars, layoutVars,
      synthVars, cacheVars, colVars, closerVars,
      saveVars, clientVars, responseVars, apiVars,
      configVars, inferVars, recordVars>>

\* What each specification leaves alone.
exceptStepVars ==
    <<filterVars, rangeVars, layoutVars, synthVars,
      cacheVars, colVars, closerVars, saveVars,
      clientVars, responseVars, apiVars, configVars,
      inferVars, recordVars>>
exceptFilterVars ==
    <<stepVars, rangeVars, layoutVars, synthVars,
      cacheVars, colVars, closerVars, saveVars,
      clientVars, responseVars, apiVars, configVars,
      inferVars, recordVars>>
exceptRangeVars ==
    <<stepVars, filterVars, layoutVars, synthVars,
      cacheVars, colVars, closerVars, saveVars,
      clientVars, responseVars, apiVars, configVars,
      inferVars, recordVars>>
exceptLayoutVars ==
    <<stepVars, filterVars, rangeVars, synthVars,
      cacheVars, colVars, closerVars, saveVars,
      clientVars, responseVars, apiVars, configVars,
      inferVars, recordVars>>
exceptSynthVars ==
    <<stepVars, filterVars, rangeVars, layoutVars,
      cacheVars, colVars, closerVars, saveVars,
      clientVars, responseVars, apiVars, configVars,
      inferVars, recordVars>>
exceptCacheVars ==
    <<stepVars, filterVars, rangeVars, layoutVars,
      synthVars, colVars, closerVars, saveVars,
      clientVars, responseVars, apiVars, configVars,
      inferVars, recordVars>>
exceptColVars ==
    <<stepVars, filterVars, rangeVars, layoutVars,
      synthVars, cacheVars, closerVars, saveVars,
      clientVars, responseVars, apiVars, configVars,
      inferVars, recordVars>>
exceptCloserVars ==
    <<stepVars, filterVars, rangeVars, layoutVars,
      synthVars, cacheVars, colVars, saveVars,
      clientVars, responseVars, apiVars, configVars,
      inferVars, recordVars>>
exceptSaveVars ==
    <<stepVars, filterVars, rangeVars, layoutVars,
      synthVars, cacheVars, colVars, closerVars,
      clientVars, responseVars, apiVars, configVars,
      inferVars, recordVars>>
exceptClientVars ==
    <<stepVars, filterVars, rangeVars, layoutVars,
      synthVars, cacheVars, colVars, closerVars,
      saveVars, responseVars, apiVars, configVars,
      inferVars, recordVars>>
exceptResponseVars ==
    <<stepVars, filterVars, rangeVars, layoutVars,
      synthVars, cacheVars, colVars, closerVars,
      saveVars, clientVars, apiVars, configVars,
      inferVars, recordVars>>
exceptApiVars ==
    <<stepVars, filterVars, rangeVars, layoutVars,
      synthVars, cacheVars, colVars, closerVars,
      saveVars, clientVars, responseVars, configVars,
      inferVars, recordVars>>
exceptConfigVars ==
    <<stepVars, filterVars, rangeVars, layoutVars,
      synthVars, cacheVars, colVars, closerVars,
      saveVars, clientVars, responseVars, apiVars,
      inferVars, recordVars>>
exceptInferVars ==
    <<stepVars, filterVars, rangeVars, layoutVars,
      synthVars, cacheVars, colVars, closerVars,
      saveVars, clientVars, responseVars, apiVars,
      configVars, recordVars>>
exceptRecordVars ==
    <<stepVars, filterVars, rangeVars, layoutVars,
      synthVars, cacheVars, colVars, closerVars,
      saveVars, clientVars, responseVars, apiVars,
      configVars, inferVars>>

(***************************************************************************)
(* Bounds of the model.                                                    *)
(***************************************************************************)
\* steps of one session
MaxSteps == 2
\* controls in a step's annotation dictionary
MaxControls == 1
\* controls in the annotation dictionary handed to the filter
MaxFilterControls == 2
\* controls in the API annotation dictionary handed to the range resolver
MaxCells == 2
\* largest row and column number of a range argument
MaxIndex == 2
\* how far below zero the row and column numbers of a range go
MaxBelowZero == 1
\* steps of the clock
MaxTicks == 4
\* spacings between the column headers, and between the row headers, of a scan
MaxSpacings == 3
\* largest column number converted to letters
MaxColumn == 704
\* target processes found running
MaxProcesses == 2

(***************************************************************************)
(* Program constants.                                                      *)
(***************************************************************************)
\* configs.get("JSON_PARSING_RETRY", 3)
JSON_PARSING_RETRY == 3
\* "cache valid for 30 seconds"
TTL == 30
\* time.time() when the process starts, and the seconds between two readings
StartTime == 1000
TickSeconds == 10
max_workers == 16

\* ---------------------------------------------------------------------------
\* The step processor
\* ---------------------------------------------------------------------------

\* The states of a step, in the order process() runs them (specification 4.7).
StateOrder == <<"capture_screenshot", "get_control_info", "get_prompt_message",
                "get_response", "parse_response", "execute_action",
                "update_memory">>

\* Status values a model response can carry.
ModelStatuses == {"CONTINUE", "FINISH", "CONFIRM"}

\* Function names a response can carry: a UI-control function, a structured API
\* function served by the cell-range resolver, a structured API function that is
\* not.
Functions == {"click_input", "select_table_range", "table2markdown"}

\* The function names _get_api_affected_coordinates dispatches on.
RangeFunctions == {"select_table_range", "insert_excel_table", "get_range_values",
                   "auto_fill", "set_cell_value", "reorder_columns"}

\* Puppeteer.get_command_types: functions that act on a selected UI control.
UIControlFunctions == {"click_input"}

NoResult == [done |-> FALSE, success |-> FALSE, error |-> FALSE]

StateIndex(s) == CHOOSE i \in 1..Len(StateOrder) : StateOrder[i] = s

\* process(): the state that follows s when s completed (specification 4.7).
NextState(s) ==
    IF StateIndex(s) < Len(StateOrder) THEN StateOrder[StateIndex(s) + 1] ELSE "done"

\* The record of a step as sync_memory builds it (Step, error).
MemoryRecord(step, err) == [Step |-> step, error |-> err]

StepInit ==
    /\ pc = "capture_screenshot"
    /\ sessionStep = 1
    /\ entered = <<>>
    /\ raisedIn = "none"
    /\ errorTb = {}
    /\ escaped = FALSE
    /\ status = "CONTINUE"
    /\ memory = <<>>
    /\ log = <<>>
    /\ annotationDict = -1
    /\ cleanShot = FALSE
    /\ controlLabel = 0
    /\ operation = ""
    /\ responseParses = FALSE
    /\ allFailed = FALSE
    /\ modelCalls = 0
    /\ actionResult = NoResult
    /\ evidence = "none"
    /\ apiCoords = -1
    /\ appClosed = FALSE

StepIdle ==
    /\ pc = "off"
    /\ sessionStep = 0
    /\ entered = <<>>
    /\ raisedIn = "none"
    /\ errorTb = {}
    /\ escaped = FALSE
    /\ status = ""
    /\ memory = <<>>
    /\ log = <<>>
    /\ annotationDict = -1
    /\ cleanShot = FALSE
    /\ controlLabel = 0
    /\ operation = ""
    /\ responseParses = FALSE
    /\ allFailed = FALSE
    /\ modelCalls = 0
    /\ actionResult = NoResult
    /\ evidence = "none"
    /\ apiCoords = -1
    /\ appClosed = FALSE

\* exception_capture without the gate: the error is recorded and the step goes on.
ExceptionCaptureContinues(s) ==
    /\ raisedIn' = s
    /\ errorTb' = errorTb \cup {s}
    /\ memory' = Append(memory, MemoryRecord(sessionStep, errorTb \cup {s}))
    /\ log' = Append(log, MemoryRecord(sessionStep, errorTb \cup {s}))
    /\ pc' = NextState(s)

\* exception_capture (specification 4.7, failure semantics): the exception of
\* state s is recorded as the step's error, the step is memorized with the
\* error populated, and the step stops.
ExceptionCapture(s) ==
    /\ raisedIn' = s
    /\ errorTb' = errorTb \cup {s}
    /\ memory' = Append(memory, MemoryRecord(sessionStep, errorTb \cup {s}))
    /\ log' = Append(log, MemoryRecord(sessionStep, errorTb \cup {s}))
    /\ pc' = "done"

\* A wrapped state completed: process() moves on to the next state
\* (specification 4.7).
Completed(s) ==
    /\ pc' = NextState(s)
    /\ UNCHANGED <<raisedIn, errorTb, memory, log>>

\* capture_screenshot (wrapped). The screenshot is taken and the annotation
\* dictionary built, unless a call raises before (photographer) or after
\* (the filter, the annotated screenshot, the encoders) the dictionary exists.
capture_screenshot ==
    /\ pc = "capture_screenshot"
    /\ entered' = Append(entered, "capture_screenshot")
    /\ \E n \in 0..MaxControls, outcome \in {"ok", "raise_early", "raise_late"} :
         /\ annotationDict' = IF outcome = "raise_early" THEN annotationDict ELSE n
         /\ cleanShot' = (outcome # "raise_early")
         /\ IF outcome = "ok"
              THEN Completed("capture_screenshot")
              ELSE ExceptionCapture("capture_screenshot")
    /\ UNCHANGED <<sessionStep, escaped, status, controlLabel, operation,
                   responseParses, allFailed, modelCalls, actionResult, evidence,
                   apiCoords, appClosed>>

\* get_control_info (wrapped): reads the dictionaries through the inspector.
get_control_info ==
    /\ pc = "get_control_info"
    /\ entered' = Append(entered, "get_control_info")
    /\ \E raises \in BOOLEAN :
         IF raises THEN ExceptionCapture("get_control_info")
                   ELSE Completed("get_control_info")
    /\ UNCHANGED <<sessionStep, escaped, status, annotationDict, cleanShot,
                   controlLabel, operation, responseParses, allFailed, modelCalls,
                   actionResult, evidence, apiCoords, appClosed>>

\* get_prompt_message (wrapped): assembles the prompt from the helpers.
get_prompt_message ==
    /\ pc = "get_prompt_message"
    /\ entered' = Append(entered, "get_prompt_message")
    /\ \E raises \in BOOLEAN :
         IF raises THEN ExceptionCapture("get_prompt_message")
                   ELSE Completed("get_prompt_message")
    /\ UNCHANGED <<sessionStep, escaped, status, annotationDict, cleanShot,
                   controlLabel, operation, responseParses, allFailed, modelCalls,
                   actionResult, evidence, apiCoords, appClosed>>

\* The loop with the bound off by one: retry <= JSON_PARSING_RETRY.
RECURSIVE GetResponseLoopOffByOne(_, _, _, _)
GetResponseLoopOffByOne(retry, calls, resp, raiseAt) ==
    IF retry <= JSON_PARSING_RETRY
      THEN IF raiseAt = calls + 1
             THEN [calls |-> calls + 1, parses |-> FALSE, raised |-> TRUE]
             ELSE IF resp[calls + 1]
                    THEN [calls |-> calls + 1, parses |-> TRUE, raised |-> FALSE]
                    ELSE GetResponseLoopOffByOne(retry + 1, calls + 1, resp, raiseAt)
      ELSE [calls |-> calls, parses |-> FALSE, raised |-> FALSE]

\* The while loop of get_response. resp[i] tells whether the i-th response of
\* the model parses; the raiseAt-th call of the model raises (0: none does).
\* retry counts the failed parses, calls the calls made so far.
RECURSIVE GetResponseLoop(_, _, _, _)
GetResponseLoop(retry, calls, resp, raiseAt) ==
    IF retry < JSON_PARSING_RETRY
      THEN IF raiseAt = calls + 1
             THEN [calls |-> calls + 1, parses |-> FALSE, raised |-> TRUE]
             ELSE IF resp[calls + 1]
                    THEN [calls |-> calls + 1, parses |-> TRUE, raised |-> FALSE]
                    ELSE GetResponseLoop(retry + 1, calls + 1, resp, raiseAt)
      ELSE [calls |-> calls, parses |-> FALSE, raised |-> FALSE]

\* get_response (wrapped).
get_response ==
    /\ pc = "get_response"
    /\ entered' = Append(entered, "get_response")
    /\ \E resp \in [1..(JSON_PARSING_RETRY + 2) -> BOOLEAN],
          raiseAt \in 0..JSON_PARSING_RETRY :
         LET r == GetResponseLoop(0, 0, resp, raiseAt) IN
           /\ modelCalls' = r.calls
           /\ responseParses' = r.parses
           /\ allFailed' = (~r.parses /\ ~r.raised)
           /\ IF r.raised THEN ExceptionCapture("get_response")
                          ELSE Completed("get_response")
    /\ UNCHANGED <<sessionStep, escaped, status, annotationDict, cleanShot,
                   controlLabel, operation, actionResult, evidence, apiCoords,
                   appClosed>>

\* parse_response (wrapped): response_to_dict raises on a response that does not
\* parse; otherwise the fields of the response are taken over.
parse_response ==
    /\ pc = "parse_response"
    /\ entered' = Append(entered, "parse_response")
    /\ IF ~responseParses
         THEN /\ ExceptionCapture("parse_response")
              /\ UNCHANGED <<controlLabel, operation, status>>
         ELSE /\ \E label \in 1..(MaxControls + 1), f \in Functions,
                    st \in ModelStatuses :
                   /\ controlLabel' = label
                   /\ operation' = f
                   /\ status' = st
              /\ Completed("parse_response")
    /\ UNCHANGED <<sessionStep, escaped, annotationDict, cleanShot,
                   responseParses, allFailed, modelCalls, actionResult, evidence,
                   apiCoords, appClosed>>

\* A lookup that falls back to the first control instead of None.
ControlSelectedDefaultsToFirst(dict, label) ==
    IF label \in 1..dict THEN label ELSE 1

\* self._annotation_dict.get(self._control_label, None); 0 stands for None.
ControlSelected(dict, label) ==
    IF label \in 1..dict THEN label ELSE 0

\* _get_api_affected_coordinates: the rectangles of the resolver for the six
\* range functions, the empty list for every other function. resolved is the
\* number of rectangles the resolver of the function returns.
ApiAffectedCoordinates(f, resolved) ==
    IF f \in RangeFunctions THEN resolved ELSE 0

\* capture_control_screenshot without the branch for API coordinates.
CaptureControlScreenshotNoApi(control, coords, shot) ==
    IF control # 0 THEN "control"
    ELSE IF shot THEN "clean_copy"
    ELSE "skipped"

\* capture_control_screenshot: the path that writes the selected-controls image.
CaptureControlScreenshot(control, coords, shot) ==
    IF control = 0 /\ coords > 0 THEN "api_rects"
    ELSE IF control # 0 THEN "control"
    ELSE IF shot THEN "clean_copy"
    ELSE "skipped"

\* ActionSequence.execute_all on the one action of the step (specification 3,
\* 4.8 and 7e): a UI-control function without a resolved control, and an action
\* that raises, are recorded as success = false with an error; a structured API
\* function needs its arguments only; nothing propagates.
ExecuteAll(f, control, actionRaises) ==
    IF (f \in UIControlFunctions /\ control = 0) \/ actionRaises
      THEN [done |-> TRUE, success |-> FALSE, error |-> TRUE]
      ELSE [done |-> TRUE, success |-> TRUE, error |-> FALSE]

\* execute_action without the closed check.
StatusAfterExecuteKeeps(closed, st) == st

\* The status after the closed check at the end of execute_action.
StatusAfterExecute(closed, st) ==
    IF closed THEN "FINISH" ELSE st

\* execute_action (wrapped). The photographer can raise while it draws rectangles
\* (paths "control" and "api_rects"); the copy of the clean screenshot is guarded.
execute_action ==
    /\ pc = "execute_action"
    /\ entered' = Append(entered, "execute_action")
    /\ \E resolved \in 0..1, photoRaises \in BOOLEAN, actionRaises \in BOOLEAN,
          closes \in BOOLEAN :
         LET control == ControlSelected(annotationDict, controlLabel)
             coords == ApiAffectedCoordinates(operation, resolved)
             path == CaptureControlScreenshot(control, coords, cleanShot)
         IN  IF annotationDict = -1
               THEN \* None has no get
                    /\ ExceptionCapture("execute_action")
                    /\ UNCHANGED <<evidence, apiCoords, actionResult,
                                   appClosed, status>>
               ELSE /\ evidence' = path
                    /\ apiCoords' = IF control = 0 THEN coords ELSE apiCoords
                    /\ IF photoRaises /\ path \in {"control", "api_rects"}
                         THEN /\ ExceptionCapture("execute_action")
                              /\ UNCHANGED <<actionResult, appClosed, status>>
                         ELSE /\ actionResult' =
                                     ExecuteAll(operation, control, actionRaises)
                              /\ appClosed' = closes
                              /\ status' = StatusAfterExecute(closes, status)
                              /\ Completed("execute_action")
    /\ UNCHANGED <<sessionStep, escaped, annotationDict, cleanShot, controlLabel,
                   operation, responseParses, allFailed, modelCalls>>

\* update_memory (not wrapped): sync_memory, then the record is added to the
\* agent memory and to the structural log, then the blackboard is updated.
\* An exception of sync_memory leaves before anything is added; an exception of
\* the blackboard update leaves after both were added.
update_memory ==
    /\ pc = "update_memory"
    /\ entered' = Append(entered, "update_memory")
    /\ \E outcome \in {"ok", "sync_raises", "blackboard_raises"} :
         /\ IF outcome = "sync_raises"
              THEN UNCHANGED <<memory, log>>
              ELSE /\ memory' = Append(memory, MemoryRecord(sessionStep, errorTb))
                   /\ log' = Append(log, MemoryRecord(sessionStep, errorTb))
         /\ escaped' = (outcome # "ok")
         /\ raisedIn' = IF outcome = "ok" THEN raisedIn ELSE "update_memory"
    /\ pc' = "done"
    /\ UNCHANGED <<sessionStep, errorTb, status, annotationDict, cleanShot,
                   controlLabel, operation, responseParses, allFailed, modelCalls,
                   actionResult, evidence, apiCoords, appClosed>>

\* The session starts the next step with a new processor, unless the step
\* finished the session or an exception left the processor (specification 5, 7).
NextStep ==
    /\ pc = "done"
    /\ ~escaped
    /\ status # "FINISH"
    /\ sessionStep < MaxSteps
    /\ sessionStep' = sessionStep + 1
    /\ pc' = "capture_screenshot"
    /\ entered' = <<>>
    /\ raisedIn' = "none"
    /\ errorTb' = {}
    /\ annotationDict' = -1
    /\ cleanShot' = FALSE
    /\ controlLabel' = 0
    /\ operation' = ""
    /\ responseParses' = FALSE
    /\ allFailed' = FALSE
    /\ modelCalls' = 0
    /\ actionResult' = NoResult
    /\ evidence' = "none"
    /\ apiCoords' = -1
    /\ UNCHANGED <<escaped, status, memory, log, appClosed>>

\* ---------------------------------------------------------------------------
\* The control filter
\* ---------------------------------------------------------------------------

\* The filter stages, in the order get_filtered_annotation_dict runs them.
StageOrder == <<"text", "semantic", "icon">>

\* Entries CONTROL_FILTER_TYPE can hold, in the spellings a configuration uses.
FilterTypeNames == {"TEXT", "semantic", "Icon", "other"}

\* str.lower() on those entries.
Lower(t) ==
    CASE t = "TEXT" -> "text"
      [] t = "Icon" -> "icon"
      [] OTHER -> t

\* The control the annotation gives label i.
ControlOf(i) == 100 + i

\* photographer.get_annotation_dict: labels 1..n, each with its control, as the
\* set of (label, control) pairs.
AnnotationDictOf(n) == {<<i, ControlOf(i)>> : i \in 1..n}

\* inplace_append_filtered_annotation_dict (specification 4.4): the stage's
\* pairs are added to the pairs collected so far.
InplaceAppend(filtered, stageDict) == filtered \cup stageDict

\* The three stage blocks of get_filtered_annotation_dict from stage i on. A
\* stage named by the configuration is created and run; a stage whose model is
\* unavailable raises out of the function. sel[st] is what stage st selects, a
\* part of the input dictionary (specification 4.4).
RECURSIVE RunStages(_, _, _, _, _, _)
RunStages(i, filtered, ran, lower, sel, unavailable) ==
    IF i > Len(StageOrder)
      THEN [raised |-> FALSE, dict |-> filtered, stagesRun |-> ran]
      ELSE LET st == StageOrder[i] IN
           IF st \notin lower
             THEN RunStages(i + 1, filtered, ran, lower, sel, unavailable)
             ELSE IF st \in unavailable
                    THEN [raised |-> TRUE, dict |-> {}, stagesRun |-> ran \cup {st}]
                    ELSE RunStages(i + 1, InplaceAppend(filtered, sel[st]),
                                   ran \cup {st}, lower, sel, unavailable)

\* The guard with "and" for "or": the filter is skipped only when both are empty.
GetFilteredAnnotationDictBothEmpty(annotation_dict, control_filter_type, prev_plan, sel, unavailable) ==
    IF control_filter_type = {} /\ prev_plan = <<>>
      THEN [raised |-> FALSE, dict |-> annotation_dict, stagesRun |-> {}]
      ELSE RunStages(1, {}, {}, {Lower(t) : t \in control_filter_type},
                     sel, unavailable)

\* The stages start from the input dictionary instead of the empty one.
GetFilteredAnnotationDictFromInput(annotation_dict, control_filter_type, prev_plan, sel, unavailable) ==
    IF control_filter_type = {} \/ prev_plan = <<>>
      THEN [raised |-> FALSE, dict |-> annotation_dict, stagesRun |-> {}]
      ELSE RunStages(1, annotation_dict, {}, {Lower(t) : t \in control_filter_type},
                     sel, unavailable)

\* get_filtered_annotation_dict.
GetFilteredAnnotationDict(annotation_dict, control_filter_type, prev_plan, sel, unavailable) ==
    IF control_filter_type = {} \/ prev_plan = <<>>
      THEN [raised |-> FALSE, dict |-> annotation_dict, stagesRun |-> {}]
      ELSE RunStages(1, {}, {}, {Lower(t) : t \in control_filter_type},
                     sel, unavailable)

FilterInit ==
    /\ \E n \in 0..MaxFilterControls,
          types \in SUBSET FilterTypeNames,
          plan \in {<<>>, <<"select the range">>},
          down \in {{}} \cup {{StageOrder[i]} : i \in 1..Len(StageOrder)} :
         \E sel \in [{"text", "semantic", "icon"} -> SUBSET AnnotationDictOf(n)] :
            fIn = [dict |-> AnnotationDictOf(n), types |-> types, prev_plan |-> plan,
                   sel |-> sel, unavailable |-> down]
    /\ fOut = [called |-> FALSE, raised |-> FALSE, dict |-> {}, stagesRun |-> {},
               captureError |-> FALSE]

\* capture_screenshot, lines 323-326: the filter is applied to the annotation
\* dictionary; an exception of the filter is an exception of capture_screenshot.
FilterInCapture ==
    /\ ~fOut.called
    /\ LET r == GetFilteredAnnotationDict(fIn.dict, fIn.types, fIn.prev_plan,
                                          fIn.sel, fIn.unavailable)
       IN fOut' = [called |-> TRUE, raised |-> r.raised, dict |-> r.dict,
                   stagesRun |-> r.stagesRun, captureError |-> r.raised]
    /\ UNCHANGED fIn

FilterIdle == fIn = <<>> /\ fOut = <<>>
\* ---------------------------------------------------------------------------
\* The cell-range coordinate resolver
\* ---------------------------------------------------------------------------

Alphabet == <<"A", "B", "C", "D", "E", "F", "G", "H", "I", "J", "K", "L", "M",
              "N", "O", "P", "Q", "R", "S", "T", "U", "V", "W", "X", "Y", "Z">>
LowerAlphabet == <<"a", "b", "c", "d", "e", "f", "g", "h", "i", "j", "k", "l", "m",
                   "n", "o", "p", "q", "r", "s", "t", "u", "v", "w", "x", "y", "z">>
Digits == <<"0", "1", "2", "3", "4", "5", "6", "7", "8", "9">>

IsUpperLetter(c) == \E i \in DOMAIN Alphabet : Alphabet[i] = c
IsDigit(c) == \E i \in DOMAIN Digits : Digits[i] = c

\* ord(char) - ord('A') + 1 for a letter A..Z.
LetterValue(c) == CHOOSE i \in DOMAIN Alphabet : Alphabet[i] = c
\* int() of one digit.
DigitValue(c) == (CHOOSE i \in DOMAIN Digits : Digits[i] = c) - 1

\* str.upper() and str.strip() on a text given as its sequence of characters.
UpperChar(c) ==
    IF \E i \in DOMAIN LowerAlphabet : LowerAlphabet[i] = c
      THEN Alphabet[CHOOSE i \in DOMAIN LowerAlphabet : LowerAlphabet[i] = c]
      ELSE c
Upper(t) == [i \in DOMAIN t |-> UpperChar(t[i])]
RECURSIVE Strip(_)
Strip(t) ==
    IF t = <<>> THEN t
    ELSE IF Head(t) = " " THEN Strip(Tail(t))
    ELSE IF t[Len(t)] = " " THEN Strip(SubSeq(t, 1, Len(t) - 1))
    ELSE t

\* _col_letter_to_num: num = num * 26 + (ord(char) - ord('A') + 1), left to right.
RECURSIVE ColLetterToNumFrom(_, _)
ColLetterToNumFrom(num, letters) ==
    IF letters = <<>> THEN num
    ELSE ColLetterToNumFrom(num * 26 + LetterValue(Head(letters)), Tail(letters))
ColLetterToNum(col_letter) == ColLetterToNumFrom(0, col_letter)

\* int() of a sequence of digits.
RECURSIVE IntOfDigitsFrom(_, _)
IntOfDigitsFrom(num, ds) ==
    IF ds = <<>> THEN num
    ELSE IntOfDigitsFrom(num * 10 + DigitValue(Head(ds)), Tail(ds))
IntOfDigits(ds) == IntOfDigitsFrom(0, ds)

\* The length of the longest prefix of t made of letters A..Z.
RECURSIVE LetterPrefixLen(_)
LetterPrefixLen(t) ==
    IF t # <<>> /\ IsUpperLetter(Head(t)) THEN 1 + LetterPrefixLen(Tail(t)) ELSE 0

\* re.match(r'^([A-Z]+)(\d+)$', t): letters, then digits, nothing else.
MatchesCellPattern(t) ==
    LET k == LetterPrefixLen(t) IN
      /\ k >= 1
      /\ k < Len(t)
      /\ \A i \in (k + 1)..Len(t) : IsDigit(t[i])

\* Strings of the candidates in which 'cell' occurs, whatever the case.
ContainsCell(str) == str \in {"XLCell", "Cell"}

\* _is_cell_control.
IsCellControl(control) ==
    \/ ContainsCell(control.control_type)
    \/ ContainsCell(control.class_name)
    \/ control.source = "grounding"
    \/ control.control_type \in {"Edit", "Text", "DataItem"}

\* _infer_position_from_coordinates: (row, col) by projection through the
\* layout, <<>> (None) for a control left of or above the worksheet origin.
InferPositionFromCoordinates(control, app_rect, layout) ==
    LET relative_left == control.rect.left - app_rect.left - layout.worksheet_left
        relative_top == control.rect.top - app_rect.top - layout.worksheet_top
    IN  IF relative_left >= 0 /\ relative_top >= 0
          THEN <<(relative_top \div layout.cell_height) + 1,
                 (relative_left \div layout.cell_width) + 1>>
          ELSE <<>>

\* An inference that trusts the geometry first and reads the text only for a
\* control the projection cannot place.
InferCellPositionGeometryFirst(control, app_rect, layout) ==
    LET t == Upper(Strip(control.text))
        projected == InferPositionFromCoordinates(control, app_rect, layout)
    IN  IF projected # <<>> THEN projected
        ELSE IF control.text # <<>> /\ Len(control.text) <= 10 /\ MatchesCellPattern(t)
          THEN LET k == LetterPrefixLen(t) IN
               <<IntOfDigits(SubSeq(t, k + 1, Len(t))), ColLetterToNum(SubSeq(t, 1, k))>>
        ELSE <<>>

\* _infer_cell_position: the address in the text when it has the shape of one,
\* the projection of the rectangle otherwise.
InferCellPosition(control, app_rect, layout) ==
    LET t == Upper(Strip(control.text)) IN
      IF control.text # <<>> /\ Len(control.text) <= 10 /\ MatchesCellPattern(t)
        THEN LET k == LetterPrefixLen(t) IN
             <<IntOfDigits(SubSeq(t, k + 1, Len(t))), ColLetterToNum(SubSeq(t, 1, k))>>
        ELSE InferPositionFromCoordinates(control, app_rect, layout)

\* _get_cells_in_range_from_annotation: the cell controls of the API annotation
\* dictionary whose inferred position lies in the range.
GetCellsInRangeFromAnnotation(dict, app_rect, layout, a) ==
    {c \in dict :
        /\ IsCellControl(c)
        /\ LET pos == InferCellPosition(c, app_rect, layout) IN
             /\ pos # <<>>
             /\ a.start_row <= pos[1] /\ pos[1] <= a.end_row
             /\ a.start_col <= pos[2] /\ pos[2] <= a.end_col}

SetMin(S) == CHOOSE x \in S : \A y \in S : x <= y
SetMax(S) == CHOOSE x \in S : \A y \in S : x >= y
Max2(x, y) == IF x >= y THEN x ELSE y
Min2(x, y) == IF x <= y THEN x ELSE y

\* A merge that takes the left edge of the rightmost cell.
CalculateMergedRectangleMaxLeft(cells) ==
    [left |-> SetMax({c.rect.left : c \in cells}),
     top |-> SetMin({c.rect.top : c \in cells}),
     right |-> SetMax({c.rect.right : c \in cells}),
     bottom |-> SetMax({c.rect.bottom : c \in cells})]

\* _calculate_merged_rectangle, for a non-empty list of cells.
CalculateMergedRectangle(cells) ==
    [left |-> SetMin({c.rect.left : c \in cells}),
     top |-> SetMin({c.rect.top : c \in cells}),
     right |-> SetMax({c.rect.right : c \in cells}),
     bottom |-> SetMax({c.rect.bottom : c \in cells})]

\* A clamp that cuts at the window's edges without keeping one pixel of size.
ClampToWindowNoMinSize(r, app_rect) ==
    [left |-> Max2(0, Min2(r.left, app_rect.width - 1)),
     top |-> Max2(0, Min2(r.top, app_rect.height - 1)),
     right |-> Min2(r.right, app_rect.width),
     bottom |-> Min2(r.bottom, app_rect.height)]

\* "Ensure coordinates are within window bounds", the same in both tiers.
ClampToWindow(r, app_rect) ==
    LET left == Max2(0, Min2(r.left, app_rect.width - 1))
        top == Max2(0, Min2(r.top, app_rect.height - 1))
    IN  [left |-> left,
         top |-> top,
         right |-> Max2(left + 1, Min2(r.right, app_rect.width)),
         bottom |-> Max2(top + 1, Min2(r.bottom, app_rect.height))]

\* A resolver whose fallback takes the end column and row as exclusive.
GetExcelRangeCoordinatesEndExclusive(dict, app_rect, layout, a) ==
    LET range_cells == GetCellsInRangeFromAnnotation(dict, app_rect, layout, a) IN
      IF range_cells # {}
        THEN LET merged_rect == CalculateMergedRectangle(range_cells)
                 relative_rect ==
                     [left |-> merged_rect.left - app_rect.left,
                      top |-> merged_rect.top - app_rect.top,
                      right |-> merged_rect.right - app_rect.left,
                      bottom |-> merged_rect.bottom - app_rect.top]
             IN  [tier |-> "annotation", before |-> relative_rect,
                  rects |-> <<ClampToWindow(relative_rect, app_rect)>>]
        ELSE LET fallback ==
                     [left |-> layout.worksheet_left
                                 + (a.start_col - 1) * layout.cell_width,
                      top |-> layout.worksheet_top
                                 + (a.start_row - 1) * layout.cell_height,
                      right |-> layout.worksheet_left
                                 + (a.end_col - 1) * layout.cell_width,
                      bottom |-> layout.worksheet_top
                                 + (a.end_row - 1) * layout.cell_height]
             IN  [tier |-> "landmark", before |-> fallback,
                  rects |-> <<ClampToWindow(fallback, app_rect)>>]

\* _get_excel_range_coordinates on integer arguments: the merged rectangle of
\* the cells found, relative to the window, or else the rectangle computed from
\* the layout; before is the rectangle before it is clamped.
GetExcelRangeCoordinates(dict, app_rect, layout, a) ==
    LET range_cells == GetCellsInRangeFromAnnotation(dict, app_rect, layout, a) IN
      IF range_cells # {}
        THEN LET merged_rect == CalculateMergedRectangle(range_cells)
                 relative_rect ==
                     [left |-> merged_rect.left - app_rect.left,
                      top |-> merged_rect.top - app_rect.top,
                      right |-> merged_rect.right - app_rect.left,
                      bottom |-> merged_rect.bottom - app_rect.top]
             IN  [tier |-> "annotation", before |-> relative_rect,
                  rects |-> <<ClampToWindow(relative_rect, app_rect)>>]
        ELSE LET fallback ==
                     [left |-> layout.worksheet_left
                                 + (a.start_col - 1) * layout.cell_width,
                      top |-> layout.worksheet_top
                                 + (a.start_row - 1) * layout.cell_height,
                      right |-> layout.worksheet_left + a.end_col * layout.cell_width,
                      bottom |-> layout.worksheet_top + a.end_row * layout.cell_height]
             IN  [tier |-> "landmark", before |-> fallback,
                  rects |-> <<ClampToWindow(fallback, app_rect)>>]

Rect(l, t, r, b) == [left |-> l, top |-> t, right |-> r, bottom |-> b]

\* Controls an API annotation dictionary can hold: cells that carry their
\* address, a cell-shaped control of the vision detector without text, a cell
\* known by its class name, and a button.
CandidateControls ==
    { [text |-> <<"A", "1">>, rect |-> Rect(100, 200, 150, 220),
       control_type |-> "DataItem", class_name |-> "", source |-> "uia"],
      [text |-> <<"B", "1">>, rect |-> Rect(150, 200, 200, 220),
       control_type |-> "DataItem", class_name |-> "", source |-> "uia"],
      [text |-> <<" ", "a", "2">>, rect |-> Rect(100, 220, 150, 240),
       control_type |-> "Edit", class_name |-> "", source |-> "uia"],
      [text |-> <<>>, rect |-> Rect(130, 230, 180, 250),
       control_type |-> "", class_name |-> "", source |-> "grounding"],
      [text |-> <<"B", "2">>, rect |-> Rect(150, 220, 200, 240),
       control_type |-> "Custom", class_name |-> "XLCell", source |-> "uia"],
      [text |-> <<"O", "K">>, rect |-> Rect(10, 10, 60, 30),
       control_type |-> "Button", class_name |-> "", source |-> "uia"] }

\* Windows: at the screen origin or off it, roomy or smaller than the sheet.
CandidateWindows ==
    { [left |-> 0, top |-> 0, width |-> 800, height |-> 600],
      [left |-> 40, top |-> 60, width |-> 800, height |-> 600],
      [left |-> 0, top |-> 0, width |-> 130, height |-> 215],
      [left |-> 40, top |-> 60, width |-> 130, height |-> 215] }

\* Layouts _detect_excel_interface_layout can hand out: the default one and a
\* measured one.
CandidateLayouts ==
    { [worksheet_left |-> 48, worksheet_top |-> 201, cell_width |-> 72,
       cell_height |-> 21],
      [worksheet_left |-> 60, worksheet_top |-> 140, cell_width |-> 50,
       cell_height |-> 20] }

RangeInit ==
    /\ \E dict \in {d \in SUBSET CandidateControls : Cardinality(d) <= MaxCells},
          app \in CandidateWindows,
          layout \in CandidateLayouts,
          sr \in 1..MaxIndex, sc \in 1..MaxIndex,
          er \in 1..MaxIndex, ec \in 1..MaxIndex :
         rIn = [dict |-> dict, app_rect |-> app, layout |-> layout,
                args |-> [start_row |-> sr, start_col |-> sc,
                          end_row |-> er, end_col |-> ec]]
    /\ rOut = [called |-> FALSE, tier |-> "none", before |-> Rect(0, 0, 0, 0),
               rects |-> <<>>]

\* A call of _get_excel_range_coordinates with the drawn arguments.
get_excel_range_coordinates ==
    /\ ~rOut.called
    /\ LET r == GetExcelRangeCoordinates(rIn.dict, rIn.app_rect, rIn.layout, rIn.args)
       IN rOut' = [called |-> TRUE, tier |-> r.tier, before |-> r.before,
                   rects |-> r.rects]
    /\ UNCHANGED rIn

\* Windows down to one pixel, for ranges of any integers.
SmallWindows ==
    { [left |-> 0, top |-> 0, width |-> 1, height |-> 1],
      [left |-> 40, top |-> 60, width |-> 2, height |-> 300],
      [left |-> 0, top |-> 0, width |-> 100, height |-> 1] }

\* Any integers as range arguments: rows and columns that are zero or
\* negative, ranges that end before they start.
RangeInitAnyIntegers ==
    /\ \E dict \in {d \in SUBSET CandidateControls : Cardinality(d) <= 1},
          app \in CandidateWindows \cup SmallWindows,
          layout \in CandidateLayouts,
          sr \in (0 - MaxBelowZero)..MaxIndex, sc \in (0 - MaxBelowZero)..MaxIndex,
          er \in (0 - MaxBelowZero)..MaxIndex, ec \in (0 - MaxBelowZero)..MaxIndex :
         rIn = [dict |-> dict, app_rect |-> app, layout |-> layout,
                args |-> [start_row |-> sr, start_col |-> sc,
                          end_row |-> er, end_col |-> ec]]
    /\ rOut = [called |-> FALSE, tier |-> "none", before |-> Rect(0, 0, 0, 0),
               rects |-> <<>>]

RangeIdle == rIn = <<>> /\ rOut = <<>>

\* ---------------------------------------------------------------------------
\* Detection of the worksheet layout from the window's landmarks
\* ---------------------------------------------------------------------------

\* str.lower() on a text given as its sequence of characters.
LowerChar(c) ==
    IF \E i \in DOMAIN Alphabet : Alphabet[i] = c
      THEN LowerAlphabet[CHOOSE i \in DOMAIN Alphabet : Alphabet[i] = c]
      ELSE c
LowerText(t) == [i \in DOMAIN t |-> LowerChar(t[i])]

\* needle in text, for texts given as sequences of characters.
Contains(text, needle) ==
    \E i \in 0..(Len(text) - Len(needle)) : SubSeq(text, i + 1, i + Len(needle)) = needle

\* str.isdigit() and str.isalpha(): false for the empty text.
IsDigitText(t) == t # <<>> /\ \A i \in DOMAIN t : IsDigit(t[i])
IsAlphaText(t) ==
    t # <<>> /\ \A i \in DOMAIN t : IsUpperLetter(UpperChar(t[i])) /\ ~IsDigit(t[i])

RectWidth(rect) == rect.right - rect.left
RectHeight(rect) == rect.bottom - rect.top

\* The branch of the scan loop a descendant falls in (lines 947-1002); the
\* fractions of the window's size are compared in whole pixels
\* (x < 0.2 * h is 5 * x < h).
ClassifyControl(control, app_rect) ==
    LET control_name == LowerText(control.name)
        control_id == control.automation_id
        control_type == control.control_type
        rect == control.rect
    IN  IF \/ Contains(control_name, <<"n", "a", "m", "e", " ", "b", "o", "x">>)
           \/ control_id = "FormulaBarNameBox"
           \/ control_id = "NameBox"
           \/ (control_type = "ComboBox" /\ 5 * rect.top < app_rect.height)
          THEN "name_box"
        ELSE IF \/ Contains(control_name, <<"f", "o", "r", "m", "u", "l", "a">>)
                \/ control_id = "FormulaBarEdit"
                \/ control_id = "FormulaEditBox"
                \/ (control_type = "Edit" /\ 5 * rect.top < app_rect.height
                      /\ 10 * RectWidth(rect) > 3 * app_rect.width)
          THEN "formula_bar"
        ELSE IF /\ control_type = "HeaderItem"
                /\ 20 * rect.left < 3 * app_rect.width
                /\ RectWidth(rect) < 80 /\ RectHeight(rect) < 60
          THEN IF IsDigitText(control.text) \/ rect.left - app_rect.left < 100
                 THEN "row_header" ELSE "none"
        ELSE IF /\ control_type = "HeaderItem"
                /\ 5 * rect.top < 2 * app_rect.height
                /\ RectWidth(rect) < 250 /\ RectHeight(rect) < 60
          THEN IF \/ IsAlphaText(control.text)
                  \/ 10 * (rect.top - app_rect.top) < 3 * app_rect.height
                 THEN "column_header" ELSE "none"
        ELSE IF \/ Contains(control_name, <<"r", "i", "b", "b", "o", "n">>)
                \/ (Contains(control_name, <<"t", "a", "b">>)
                      /\ 4 * rect.top < app_rect.height)
          THEN "ribbon"
        ELSE "none"

\* The rectangles of the descendants of one kind, in the order of the scan; a
\* control whose rectangle() raises is skipped.
RectsOfKind(descendants, app_rect, kind) ==
    LET Found(c) == ~c.rect_raises /\ ClassifyControl(c, app_rect) = kind
        found == SelectSeq(descendants, Found)
    IN  [i \in DOMAIN found |-> found[i].rect]

\* sorted(...): the values of a sequence in ascending order.
Ascending(values) == SortSeq(values, LAMBDA x, y : x < y)

\* The distances between consecutive values of an ascending sequence that are
\* strictly between low and high (lines 1041-1044, 1055-1058).
Spacings(sorted, low, high) ==
    LET all == [i \in 1..(Len(sorted) - 1) |-> sorted[i + 1] - sorted[i]]
        Reasonable(d) == low < d /\ d < high
    IN  SelectSeq(all, Reasonable)

\* values.sort(); values[len(values) // 2], for a non-empty list.
MiddleElement(values) == Ascending(values)[(Len(values) \div 2) + 1]

\* The layout handed out when nothing is measured (lines 925-930, 1081-1086).
DefaultLayout ==
    [worksheet_left |-> 48, worksheet_top |-> 201, cell_width |-> 72, cell_height |-> 21]

\* The layout as measured, before the bounds are applied (lines 1006-1062).
MeasureLayout(descendants, app_rect) ==
    LET name_boxes == RectsOfKind(descendants, app_rect, "name_box")
        formula_bars == RectsOfKind(descendants, app_rect, "formula_bar")
        row_headers == RectsOfKind(descendants, app_rect, "row_header")
        column_headers == RectsOfKind(descendants, app_rect, "column_header")
        ribbons == RectsOfKind(descendants, app_rect, "ribbon")
        ribbon_height ==
            SetMax({0} \cup {ribbons[i].bottom - app_rect.top : i \in DOMAIN ribbons})
        widths ==
            Spacings(Ascending([i \in DOMAIN column_headers |-> column_headers[i].left]),
                     25, 300)
        heights ==
            Spacings(Ascending([i \in DOMAIN row_headers |-> row_headers[i].top]),
                     12, 80)
    IN  [worksheet_left |->
            IF row_headers # <<>>
              THEN Max2(20, SetMax({row_headers[i].right : i \in DOMAIN row_headers})
                              - app_rect.left + 3)
            ELSE IF name_boxes # <<>>
              THEN Max2(40, name_boxes[Len(name_boxes)].left - app_rect.left)
            ELSE DefaultLayout.worksheet_left,
         worksheet_top |->
            IF column_headers # <<>>
              THEN Max2(120, SetMax({column_headers[i].bottom : i \in DOMAIN column_headers})
                               - app_rect.top + 3)
            ELSE IF formula_bars # <<>>
              THEN Max2(150, formula_bars[Len(formula_bars)].bottom - app_rect.top + 35)
            ELSE IF name_boxes # <<>>
              THEN Max2(150, name_boxes[Len(name_boxes)].bottom - app_rect.top + 55)
            ELSE IF ribbon_height > 0
              THEN Max2(150, ribbon_height + 80)
            ELSE DefaultLayout.worksheet_top,
         cell_width |->
            IF Len(column_headers) >= 2 /\ widths # <<>>
              THEN MiddleElement(widths) ELSE DefaultLayout.cell_width,
         cell_height |->
            IF Len(row_headers) >= 2 /\ heights # <<>>
              THEN MiddleElement(heights) ELSE DefaultLayout.cell_height]

\* Bounds that let the layout through as it was measured.
ApplyBoundsNone(layout) == layout

\* "Apply reasonable bounds to prevent extreme values" (lines 1066-1069).
ApplyBounds(layout) ==
    [worksheet_left |-> Max2(15, Min2(layout.worksheet_left, 250)),
     worksheet_top |-> Max2(80, Min2(layout.worksheet_top, 500)),
     cell_width |-> Max2(25, Min2(layout.cell_width, 400)),
     cell_height |-> Max2(12, Min2(layout.cell_height, 120))]

\* The body of _detect_excel_interface_layout past the cache (lines 923-1090):
\* the measured layout within its bounds, or the default layout when the scan
\* raises.
ScanLayout(scene, app_rect) ==
    IF scene.raises THEN DefaultLayout
    ELSE ApplyBounds(MeasureLayout(scene.descendants, app_rect))

\* ---------------------------------------------------------------------------
\* Both paths of the resolver on a synthetic worksheet window
\* ---------------------------------------------------------------------------

\* Rows and columns of the synthetic worksheet.
GridSize == 3
MaxSessions == 3
MaxCost == 2
MaxArg == 2
MaxCaptures == 3
MaxOffset == 3

\* The window of the synthetic worksheet, at a place on the screen.
SyntheticAppRect(m) ==
    [left |-> m.origin[1], top |-> m.origin[2], width |-> 1000, height |-> 700]

\* Screen coordinates of the top-left corner of cell (1, 1): the row headers
\* start at the window's left edge, the column headers end at grid_top.
GridLeft(m) == m.origin[1] + m.header_width
GridTop(m) == m.origin[2] + m.grid_top

\* The landmarks of the synthetic window: a row header per row with its number
\* as text, adjacent to the cells and as high as they are, and a column header
\* per column with its letter, adjacent and as wide as the cells.
SyntheticDescendants(m) ==
    [i \in 1..GridSize |->
        [name |-> <<>>, automation_id |-> "", control_type |-> "HeaderItem",
         text |-> <<Digits[i + 1]>>, rect_raises |-> FALSE,
         rect |-> Rect(m.origin[1], GridTop(m) + (i - 1) * m.cell_height,
                       GridLeft(m), GridTop(m) + i * m.cell_height)]]
    \o
    [j \in 1..GridSize |->
        [name |-> <<>>, automation_id |-> "", control_type |-> "HeaderItem",
         text |-> <<Alphabet[j]>>, rect_raises |-> FALSE,
         rect |-> Rect(GridLeft(m) + (j - 1) * m.cell_width, GridTop(m) - m.header_height,
                       GridLeft(m) + j * m.cell_width, GridTop(m))]]

\* A cell control for every cell of the worksheet, its address as its text.
SyntheticCells(m) ==
    { [text |-> <<Alphabet[j], Digits[i + 1]>>,
       rect |-> Rect(GridLeft(m) + (j - 1) * m.cell_width,
                     GridTop(m) + (i - 1) * m.cell_height,
                     GridLeft(m) + j * m.cell_width,
                     GridTop(m) + i * m.cell_height),
       control_type |-> "DataItem", class_name |-> "", source |-> "uia"]
      : i \in 1..GridSize, j \in 1..GridSize }

SynthInit ==
    /\ \E origin \in {<<0, 0>>, <<40, 60>>},
          header_width \in {30, 40},
          header_height \in {20},
          grid_top \in {100, 150, 200},
          cell_width \in {64, 100},
          cell_height \in {20, 30},
          sr \in 1..MaxIndex, sc \in 1..MaxIndex,
          er \in 1..MaxIndex, ec \in 1..MaxIndex :
         /\ sr <= er /\ sc <= ec
         /\ sIn = [origin |-> origin, header_width |-> header_width,
                   header_height |-> header_height, grid_top |-> grid_top,
                   cell_width |-> cell_width, cell_height |-> cell_height,
                   args |-> [start_row |-> sr, start_col |-> sc,
                             end_row |-> er, end_col |-> ec]]
    /\ sOut = [called |-> FALSE, layout |-> DefaultLayout,
               annotation |-> <<>>, landmark |-> <<>>]

\* _get_excel_range_coordinates for the same range of the synthetic window,
\* once with the cell controls in the API annotation dictionary and once
\* without them; the layout is the one detected from the window's landmarks.
resolve_both_paths ==
    /\ ~sOut.called
    /\ LET app_rect == SyntheticAppRect(sIn)
           layout == ScanLayout([raises |-> FALSE,
                                 descendants |-> SyntheticDescendants(sIn)], app_rect)
           precise == GetExcelRangeCoordinates(SyntheticCells(sIn), app_rect, layout,
                                               sIn.args)
           fallback == GetExcelRangeCoordinates({}, app_rect, layout, sIn.args)
       IN  sOut' = [called |-> TRUE, layout |-> layout,
                    annotation |-> [tier |-> precise.tier, rects |-> precise.rects],
                    landmark |-> [tier |-> fallback.tier, rects |-> fallback.rects]]
    /\ UNCHANGED sIn

\* ---------------------------------------------------------------------------
\* The layout cache of the processors of one process
\* ---------------------------------------------------------------------------

\* The processors of the process, and the windows they are asked about.
Processors == {"p1", "p2"}
Windows == {"w1", "w2"}

\* application_window.rectangle() of each window.
AppRectOf(w) ==
    IF w = "w1" THEN [left |-> 0, top |-> 0, width |-> 1000, height |-> 700]
    ELSE [left |-> 40, top |-> 60, width |-> 2000, height |-> 1400]

\* A descendant of the window, as the scan reads it.
Landmark(control_type, text, rect) ==
    [name |-> <<>>, automation_id |-> "", control_type |-> control_type,
     text |-> text, rect |-> rect, rect_raises |-> FALSE]

\* What a scan can meet: a window without any landmark, a scan that raises,
\* and headers far from the window's corner, 100 pixels apart.
CacheScenes ==
    { [raises |-> FALSE,
       descendants |-> <<Landmark("Button", <<"O", "K">>, Rect(10, 10, 60, 30))>>],
      [raises |-> TRUE, descendants |-> <<>>],
      [raises |-> FALSE,
       descendants |->
         << Landmark("HeaderItem", <<"1">>, Rect(250, 600, 329, 650)),
            Landmark("HeaderItem", <<"2">>, Rect(250, 700, 329, 750)),
            Landmark("HeaderItem", <<"A">>, Rect(400, 540, 500, 590)),
            Landmark("HeaderItem", <<"B">>, Rect(500, 540, 600, 590)) >>] }

\* The window showed no landmark to the scan, or the scan raised.
NothingRecognized(scene, app_rect) ==
    \/ scene.raises
    \/ \A i \in DOMAIN scene.descendants :
          ClassifyControl(scene.descendants[i], app_rect) = "none"

\* What the scan of each window yields on each scene: the layout, and whether
\* nothing was recognized.
ScanOutcome ==
    [w \in Windows |->
        [scene \in CacheScenes |->
            [layout |-> ScanLayout(scene, AppRectOf(w)),
             failed |-> NothingRecognized(scene, AppRectOf(w))]]]

\* No entry under a key of the cache; for, at, by and failed tell for which
\* window, when, by which processor and from what scan an entry was computed.
NoEntry ==
    [present |-> FALSE, layout |-> DefaultLayout, for |-> "", at |-> 0, by |-> "",
     failed |-> FALSE]

\* self._cache_timestamp read through a processor that never assigned it: the
\* attribute of the class (line 122).
ClassTimestamp == 0

CacheInit ==
    /\ now = StartTime
    /\ layoutCache = [w \in Windows |-> NoEntry]
    /\ cacheTimestamp = [p \in Processors |-> ClassTimestamp]
    /\ lastClear = -1
    /\ cOut = [called |-> FALSE, processor |-> "", window |-> "", time |-> 0,
               from_cache |-> FALSE, failed |-> FALSE, layout |-> DefaultLayout,
               before |-> NoEntry, stored |-> NoEntry, cleared_at |-> -1]

\* Lines 919-920: the key is in the dictionary of the class, and the timestamp
\* the processor reads is less than 30 seconds old.
CacheHit(p, w) == layoutCache[w].present /\ now - cacheTimestamp[p] < TTL

\* _detect_excel_interface_layout of processor p for window w: the cached
\* layout on a hit; else the scan's layout, stored under the window's key of
\* the class's dictionary, with the time assigned to the processor's own
\* _cache_timestamp.
detect_excel_interface_layout(p, w) ==
    /\ IF CacheHit(p, w)
         THEN /\ cOut' = [called |-> TRUE, processor |-> p, window |-> w, time |-> now,
                          from_cache |-> TRUE, failed |-> FALSE,
                          layout |-> layoutCache[w].layout,
                          before |-> layoutCache[w], stored |-> layoutCache[w],
                          cleared_at |-> lastClear]
              /\ UNCHANGED <<layoutCache, cacheTimestamp>>
         ELSE \E scene \in CacheScenes :
                LET entry == [present |-> TRUE,
                              layout |-> ScanOutcome[w][scene].layout,
                              for |-> w, at |-> now, by |-> p,
                              failed |-> ScanOutcome[w][scene].failed]
                IN  /\ layoutCache' = [layoutCache EXCEPT ![w] = entry]
                    /\ cacheTimestamp' = [cacheTimestamp EXCEPT ![p] = now]
                    /\ cOut' = [called |-> TRUE, processor |-> p, window |-> w,
                                time |-> now, from_cache |-> FALSE,
                                failed |-> entry.failed, layout |-> entry.layout,
                                before |-> layoutCache[w], stored |-> entry,
                                cleared_at |-> lastClear]
    /\ UNCHANGED <<now, lastClear>>

\* clear_excel_layout_cache of processor p: the dictionary of the class is
\* emptied, the processor's own timestamp is set to 0.
clear_excel_layout_cache(p) ==
    /\ layoutCache' = [w \in Windows |-> NoEntry]
    /\ cacheTimestamp' = [cacheTimestamp EXCEPT ![p] = 0]
    /\ lastClear' = now
    /\ UNCHANGED <<now, cOut>>

\* Time passes between two calls.
Tick ==
    /\ now < StartTime + MaxTicks * TickSeconds
    /\ now' = now + TickSeconds
    /\ UNCHANGED <<layoutCache, cacheTimestamp, lastClear, cOut>>

\* ---------------------------------------------------------------------------
\* The scan on windows with drawn header spacings
\* ---------------------------------------------------------------------------

\* The sequences of 1 to n elements of a set.
SeqsUpTo(S, n) == UNION {[1..k -> S] : k \in 1..n}

\* The positions of the headers that follow a first one at the given gaps.
RECURSIVE PositionsFrom(_, _)
PositionsFrom(first, gaps) ==
    IF gaps = <<>> THEN <<first>>
    ELSE <<first>> \o PositionsFrom(first + Head(gaps), Tail(gaps))

\* The window of the scan.
ScanAppRect == [left |-> 0, top |-> 0, width |-> 2000, height |-> 1400]

\* The descendants as the scan meets them, the headers last to first: a column
\* header 20 pixels wide at each left position, a row header 10 pixels high at
\* each top position.
HeaderDescendants(col_lefts, row_tops) ==
    [j \in DOMAIN col_lefts |->
        LET left == col_lefts[Len(col_lefts) + 1 - j] IN
          Landmark("HeaderItem", <<Alphabet[j]>>, Rect(left, 150, left + 20, 170))]
    \o
    [i \in DOMAIN row_tops |->
        LET top == row_tops[Len(row_tops) + 1 - i] IN
          Landmark("HeaderItem", <<Digits[i + 1]>>, Rect(0, top, 30, top + 10))]

LayoutInit ==
    /\ \E col_gaps \in SeqsUpTo({20, 50, 100, 310}, MaxSpacings),
          row_gaps \in SeqsUpTo({10, 20, 30}, MaxSpacings) :
         dIn = [col_gaps |-> col_gaps, row_gaps |-> row_gaps,
                descendants |-> HeaderDescendants(PositionsFrom(400, col_gaps),
                                                  PositionsFrom(200, row_gaps))]
    /\ dOut = [called |-> FALSE, column_headers |-> 0, row_headers |-> 0,
               measured |-> DefaultLayout, layout |-> DefaultLayout]

\* The scan of _detect_excel_interface_layout on the drawn window.
scan_layout ==
    /\ ~dOut.called
    /\ LET measured == MeasureLayout(dIn.descendants, ScanAppRect) IN
         dOut' = [called |-> TRUE,
                  column_headers |->
                      Len(RectsOfKind(dIn.descendants, ScanAppRect, "column_header")),
                  row_headers |->
                      Len(RectsOfKind(dIn.descendants, ScanAppRect, "row_header")),
                  measured |-> measured,
                  layout |-> ApplyBounds(measured)]
    /\ UNCHANGED dIn

\* ---------------------------------------------------------------------------
\* Column numbers and column letters
\* ---------------------------------------------------------------------------

\* The loop of _col_num_to_letter: while col_num > 0, col_num -= 1, the letter
\* of col_num % 26 is put in front of the result, col_num //= 26.
RECURSIVE ColNumToLetterFrom(_, _)
ColNumToLetterFrom(col_num, result) ==
    IF col_num > 0
      THEN ColNumToLetterFrom((col_num - 1) \div 26,
                              <<Alphabet[((col_num - 1) % 26) + 1]>> \o result)
      ELSE result

\* A conversion that counts the columns from 0.
ColNumToLetterFromZero(col_num) == ColNumToLetterFrom(col_num + 1, <<>>)

\* _col_num_to_letter.
ColNumToLetter(col_num) == ColNumToLetterFrom(col_num, <<>>)

ColInit ==
    /\ nIn \in 0..MaxColumn
    /\ nOut = [called |-> FALSE, letters |-> <<>>, number |-> 0, letters_again |-> <<>>]

\* The column number to letters, the letters to a number, and to letters again.
col_round_trip ==
    /\ ~nOut.called
    /\ LET letters == ColNumToLetter(nIn)
           number == ColLetterToNum(letters)
       IN  nOut' = [called |-> TRUE, letters |-> letters, number |-> number,
                    letters_again |-> ColNumToLetter(number)]
    /\ UNCHANGED nIn

\* ---------------------------------------------------------------------------
\* The application closer (src/ufo/utils/app_safe_closer.py)
\* ---------------------------------------------------------------------------

\* Keys of AppCloser.office_prog_ids.
OfficeProgIds == {"WINWORD.EXE", "EXCEL.EXE", "POWERPNT.EXE"}

\* str.upper() on the process names of the model.
UpperName(process_name) ==
    CASE process_name = "excel.exe" -> "EXCEL.EXE"
      [] process_name = "notepad.exe" -> "NOTEPAD.EXE"
      [] OTHER -> process_name

\* The checks of psutil.pid_exists in one turn of the loop, in their order:
\* before processing, after the COM attempt, before the GUI attempt, before
\* the kill.
CheckBeforeProcessing == 1
CheckAfterCom == 2
CheckBeforeGui == 3
CheckBeforeKill == 4

\* What the system can answer during one turn of the loop: the first check at
\* which the process is gone (5: at none of them), what the COM attempt and
\* the GUI attempt return, and what becomes of the kill.
Environments ==
    [gone_from : 1..5, com_success : BOOLEAN, gui_success : BOOLEAN,
     kill : {"killed", "survives", "no_such_process", "raises"}]

\* psutil.pid_exists(pid) at a check.
PidExists(e, check) == check < e.gone_from

\* The platform offers a graceful method (line 585).
GracefulAvailable(cfg) == cfg.nt /\ (cfg.com_enabled \/ cfg.automation_enabled)

\* A turn of the loop that tries COM on every process, with or without a save
\* path and whatever the application.
HandleProcessComForAll(cfg, proc, e) ==
    LET com_tried == cfg.nt /\ cfg.com_enabled
        closed_by_com == com_tried /\ e.com_success /\ ~PidExists(e, CheckAfterCom)
        gui_tried ==
            /\ ~closed_by_com /\ PidExists(e, CheckBeforeGui)
            /\ cfg.nt /\ cfg.automation_enabled
        closed_before_kill ==
            \/ closed_by_com
            \/ ~PidExists(e, CheckBeforeGui)
            \/ (gui_tried /\ e.gui_success)
        graceful_attempt_made == com_tried \/ gui_tried
        kill_tried ==
            /\ ~closed_before_kill /\ PidExists(e, CheckBeforeKill)
            /\ (graceful_attempt_made \/ ~GracefulAvailable(cfg))
    IN  IF ~PidExists(e, CheckBeforeProcessing)
          THEN [sent |-> <<>>, skipped |-> TRUE, closed_by_com |-> FALSE,
                closed_before_kill |-> FALSE, existed_at_kill |-> FALSE,
                process_closed |-> FALSE]
          ELSE [sent |-> (IF com_tried THEN <<"com">> ELSE <<>>)
                           \o (IF gui_tried THEN <<"gui">> ELSE <<>>)
                           \o (IF kill_tried THEN <<"kill">> ELSE <<>>),
                skipped |-> FALSE,
                closed_by_com |-> closed_by_com,
                closed_before_kill |-> closed_before_kill,
                existed_at_kill |-> PidExists(e, CheckBeforeKill),
                process_closed |->
                    \/ closed_before_kill
                    \/ ~PidExists(e, CheckBeforeKill)
                    \/ (kill_tried /\ e.kill \in {"killed", "no_such_process"})]

\* One turn of the loop of terminate_application_processes (lines 517-620):
\* what is sent to the process, in the order it is sent, and whether the
\* process is confirmed closed after the COM attempt, before the kill and at
\* the end.
HandleProcess(cfg, proc, e) ==
    LET com_tried ==
            /\ proc.has_save_path /\ UpperName(proc.name) \in OfficeProgIds
            /\ cfg.nt /\ cfg.com_enabled
        closed_by_com == com_tried /\ e.com_success /\ ~PidExists(e, CheckAfterCom)
        gui_tried ==
            /\ ~closed_by_com /\ PidExists(e, CheckBeforeGui)
            /\ cfg.nt /\ cfg.automation_enabled
        closed_before_kill ==
            \/ closed_by_com
            \/ ~PidExists(e, CheckBeforeGui)
            \/ (gui_tried /\ e.gui_success)
        graceful_attempt_made == com_tried \/ gui_tried
        kill_tried ==
            /\ ~closed_before_kill /\ PidExists(e, CheckBeforeKill)
            /\ (graceful_attempt_made \/ ~GracefulAvailable(cfg))
    IN  IF ~PidExists(e, CheckBeforeProcessing)
          THEN [sent |-> <<>>, skipped |-> TRUE, closed_by_com |-> FALSE,
                closed_before_kill |-> FALSE, existed_at_kill |-> FALSE,
                process_closed |-> FALSE]
          ELSE [sent |-> (IF com_tried THEN <<"com">> ELSE <<>>)
                           \o (IF gui_tried THEN <<"gui">> ELSE <<>>)
                           \o (IF kill_tried THEN <<"kill">> ELSE <<>>),
                skipped |-> FALSE,
                closed_by_com |-> closed_by_com,
                closed_before_kill |-> closed_before_kill,
                existed_at_kill |-> PidExists(e, CheckBeforeKill),
                process_closed |->
                    \/ closed_before_kill
                    \/ ~PidExists(e, CheckBeforeKill)
                    \/ (kill_tried /\ e.kill \in {"killed", "no_such_process"})]

\* The libraries the module could import (lines 8-25): win32com is looked for
\* only once pywin32 and pyautogui are there, and these only exist on Windows.
Platforms ==
    {cfg \in [nt : BOOLEAN, automation_enabled : BOOLEAN, com_enabled : BOOLEAN] :
        /\ cfg.com_enabled => cfg.automation_enabled
        /\ cfg.automation_enabled => cfg.nt}

\* The target processes found running, each with or without a save path
\* mapped to its PID.
TargetProcesses == [name : {"excel.exe", "notepad.exe"}, has_save_path : BOOLEAN]

CloserInit ==
    /\ \E close \in BOOLEAN, cfg \in Platforms, n \in 0..MaxProcesses :
         \E procs \in [1..n -> TargetProcesses] :
            kIn = [close |-> close, cfg |-> cfg, processes_to_terminate |-> procs]
    /\ kOut = [pc |-> "called", handled |-> <<>>]

\* terminate_application_processes up to its loop (lines 474-514): it returns
\* at once when close is False or no target process is running.
terminate_application_processes ==
    /\ kOut.pc = "called"
    /\ kOut' = [kOut EXCEPT !.pc = IF kIn.close /\ kIn.processes_to_terminate # <<>>
                                     THEN "loop" ELSE "returned"]
    /\ UNCHANGED kIn

\* The turn of the loop for the next target process.
handle_process ==
    /\ kOut.pc = "loop"
    /\ \E e \in Environments :
         LET i == Len(kOut.handled) + 1
             handled == Append(kOut.handled,
                               HandleProcess(kIn.cfg, kIn.processes_to_terminate[i], e))
         IN  kOut' = [pc |-> IF i = Len(kIn.processes_to_terminate)
                               THEN "returned" ELSE "loop",
                      handled |-> handled]
    /\ UNCHANGED kIn

\* ---------------------------------------------------------------------------
\* save_and_close_app (src/ufo/utils/app_safe_closer.py)
\* ---------------------------------------------------------------------------

\* The names of the processes psutil.process_iter can list.
RunningNames == {"EXCEL.EXE", "excel.exe", "notepad.exe"}

\* The PIDs of the running processes whose name, in upper case, is the given
\* one, in the order of psutil.process_iter; the PID of a process is its place
\* in the list.
PidsNamed(running, upper_name) ==
    LET Named(pid) == UpperName(running[pid]) = upper_name
    IN  SelectSeq([pid \in DOMAIN running |-> pid], Named)

SaveInit ==
    /\ \E app_name \in {"excel.exe", "notepad.exe"},
          save_dir_exists \in BOOLEAN,
          cfg \in Platforms,
          n \in 0..MaxProcesses :
         \E running \in [1..n -> RunningNames] :
            vIn = [app_name |-> app_name, save_dir_exists |-> save_dir_exists,
                   cfg |-> cfg, running |-> running]
    /\ vOut = [pc |-> "called", target_pid |-> 0, processes_to_terminate |-> <<>>,
               handled |-> <<>>, returned |-> "none"]

\* save_and_close_app up to the loop of terminate_application_processes
\* (lines 646-706 and 474-514): False without the save directory, True when no
\* process has the name; else the first PID found is the target, it alone is
\* mapped to the save path, and an AppCloser for app_name collects every
\* running process of that name.
save_and_close_app ==
    /\ vOut.pc = "called"
    /\ LET found == PidsNamed(vIn.running, UpperName(vIn.app_name)) IN
         IF ~vIn.save_dir_exists
           THEN vOut' = [vOut EXCEPT !.pc = "returned", !.returned = "False"]
         ELSE IF found = <<>>
           THEN vOut' = [vOut EXCEPT !.pc = "returned", !.returned = "True"]
         ELSE vOut' = [vOut EXCEPT !.pc = "loop", !.target_pid = Head(found),
                                   !.processes_to_terminate = found]
    /\ UNCHANGED vIn

\* The turn of the loop of terminate_application_processes for the next
\* process collected, and after the last one the final pid_exists of the
\* target (lines 711-719).
save_and_close_turn ==
    /\ vOut.pc = "loop"
    /\ \E e \in Environments :
         LET i == Len(vOut.handled) + 1
             pid == vOut.processes_to_terminate[i]
             h == HandleProcess(vIn.cfg,
                                [name |-> vIn.running[pid],
                                 has_save_path |-> pid = vOut.target_pid], e)
             handled == Append(vOut.handled, [pid |-> pid, sent |-> h.sent,
                                              process_closed |-> h.process_closed])
             last == i = Len(vOut.processes_to_terminate)
         IN  vOut' = [vOut EXCEPT
                        !.handled = handled,
                        !.pc = IF last THEN "returned" ELSE "loop",
                        !.returned =
                            IF ~last THEN "none"
                            ELSE IF \E k \in DOMAIN handled :
                                      handled[k].pid = vOut.target_pid
                                        /\ handled[k].process_closed
                              THEN "True" ELSE "False"]
    /\ UNCHANGED vIn

\* ---------------------------------------------------------------------------
\* UFOClientManager.run_all (src/ufo/module/client.py)
\* ---------------------------------------------------------------------------

\* Where the calling thread is after the call session.run() of line 108 has
\* started the session: inside the call, until it returns.
AfterRunCallDispatched(k) == "loop_head"
AfterRunCall(k) == "in_run"

ClientInit ==
    /\ \E n \in 0..MaxSessions, upload \in BOOLEAN, monitor \in BOOLEAN :
         \E send_point \in SUBSET (1..n) :
            bIn = [sessions |-> n, UPLOAD |-> upload, MONITOR |-> monitor,
                   SEND_POINT |-> send_point]
    /\ bOut = [pc |-> "loop_head", session |-> 0,
               run |-> [k \in 1..MaxSessions |-> "pending"],
               tasks |-> <<>>, sent |-> <<>>]

\* The head of the for loop (lines 103-108): the loop variable session is
\* bound to the next session and its run() is called; after the last session
\* the with block is left.
next_session ==
    /\ bOut.pc = "loop_head"
    /\ IF bOut.session < bIn.sessions
         THEN LET k == bOut.session + 1 IN
              bOut' = [bOut EXCEPT !.session = k, !.run[k] = "running",
                                   !.pc = AfterRunCall(k)]
         ELSE bOut' = [bOut EXCEPT !.pc = "shutdown"]
    /\ UNCHANGED bIn

\* session.run() returns (line 108); the message of lines 110-114 is sent and
\* the upload task of lines 116-117 is submitted. The task is the lambda: it
\* holds no session of its own, it reads the variable session when it runs.
run_returns ==
    /\ bOut.pc = "in_run"
    /\ LET k == bOut.session
           task == [after |-> k, state |-> "queued", read |-> 0]
       IN  bOut' = [bOut EXCEPT
                      !.run[k] = "finished",
                      !.sent = IF bIn.MONITOR /\ k \in bIn.SEND_POINT
                                 THEN Append(@, k) ELSE @,
                      !.tasks = IF bIn.UPLOAD THEN Append(@, task) ELSE @,
                      !.pc = "loop_head"]
    /\ UNCHANGED bIn

\* A worker of the pool takes the oldest queued task and calls the lambda,
\* which evaluates session.log_path with the session the loop variable is
\* bound to at that moment (line 117).
worker_takes ==
    /\ \E t \in DOMAIN bOut.tasks :
         /\ bOut.tasks[t].state = "queued"
         /\ \A u \in 1..(t - 1) : bOut.tasks[u].state # "queued"
         /\ Cardinality({u \in DOMAIN bOut.tasks :
                            bOut.tasks[u].state = "uploading"}) < max_workers
         /\ bOut' = [bOut EXCEPT !.tasks[t].state = "uploading",
                                 !.tasks[t].read = bOut.session]
    /\ UNCHANGED bIn

\* upload_folder returns in a worker.
worker_done ==
    /\ \E t \in DOMAIN bOut.tasks :
         /\ bOut.tasks[t].state = "uploading"
         /\ bOut' = [bOut EXCEPT !.tasks[t].state = "done"]
    /\ UNCHANGED bIn

\* The end of the with block (line 102): the executor is shut down and the
\* calling thread waits for every submitted task.
executor_shutdown ==
    /\ bOut.pc = "shutdown"
    /\ \A t \in DOMAIN bOut.tasks : bOut.tasks[t].state = "done"
    /\ bOut' = [bOut EXCEPT !.pc = "returned"]
    /\ UNCHANGED bIn

\* ---------------------------------------------------------------------------
\* The retry loop of get_response, one model call at a time
\* ---------------------------------------------------------------------------

\* One turn of the while loop of get_response (lines 514-525) in loop state s:
\* the model is called; a call that raises leaves the loop and the state; else
\* the response and its cost are stored, a response that parses breaks the
\* loop and one that does not counts as a retry.
GetResponseIterationNoBreak(s, parses, raises, cost) ==
    IF raises
      THEN [s EXCEPT !.pc = "raised", !.calls = @ + 1]
      ELSE [s EXCEPT !.calls = @ + 1, !.cost = cost,
                     !.parsed = parses, !.retry = @ + 1]
GetResponseIterationAddsCost(s, parses, raises, cost) ==
    IF raises
      THEN [s EXCEPT !.pc = "raised", !.calls = @ + 1]
    ELSE IF parses
      THEN [s EXCEPT !.pc = "returned", !.calls = @ + 1,
                     !.cost = @ + cost, !.parsed = TRUE]
      ELSE [s EXCEPT !.calls = @ + 1, !.cost = @ + cost, !.retry = @ + 1]
GetResponseIteration(s, parses, raises, cost) ==
    IF raises
      THEN [s EXCEPT !.pc = "raised", !.calls = @ + 1]
    ELSE IF parses
      THEN [s EXCEPT !.pc = "returned", !.calls = @ + 1,
                     !.cost = cost, !.parsed = TRUE]
      ELSE [s EXCEPT !.calls = @ + 1, !.cost = cost, !.retry = @ + 1]

\* The calls the model can be asked for in one step.
CallPositions == 1..(JSON_PARSING_RETRY + 1)

\* The position of the first response that parses, 0 when none does.
FirstParsing(resp) ==
    IF \E i \in DOMAIN resp : resp[i]
      THEN CHOOSE i \in DOMAIN resp : resp[i] /\ \A j \in 1..(i - 1) : ~resp[j]
      ELSE 0

\* resp[i] tells whether the response to the i-th call parses, costs[i] is the
\* cost the i-th call reports, the raiseAt-th call raises (0: none does);
\* cost_before is the cost attribute of the processor before the state.
ResponseInit ==
    /\ \E resp \in [CallPositions -> BOOLEAN],
          raiseAt \in {0} \cup CallPositions,
          costs \in [CallPositions -> 1..MaxCost],
          cost_before \in 0..MaxCost :
            gIn = [resp |-> resp, raiseAt |-> raiseAt, costs |-> costs,
                   cost_before |-> cost_before]
    /\ gOut = [pc |-> "loop", retry |-> 0, calls |-> 0, parsed |-> FALSE,
               cost |-> gIn.cost_before, recorded |-> FALSE, Cost |-> 0]

\* The head of the while loop and, when it is entered, one turn of it.
get_response_turn ==
    /\ gOut.pc = "loop"
    /\ IF gOut.retry < JSON_PARSING_RETRY
         THEN LET i == gOut.calls + 1 IN
              gOut' = GetResponseIteration(gOut, gIn.resp[i], gIn.raiseAt = i,
                                           gIn.costs[i])
         ELSE gOut' = [gOut EXCEPT !.pc = "returned"]
    /\ UNCHANGED gIn

\* sync_memory writes the cost of the processor into the record of the step
\* (line 1230).
sync_memory_cost ==
    /\ gOut.pc \in {"returned", "raised"}
    /\ ~gOut.recorded
    /\ gOut' = [gOut EXCEPT !.recorded = TRUE, !.Cost = gOut.cost]
    /\ UNCHANGED gIn

\* ---------------------------------------------------------------------------
\* _get_api_affected_coordinates and the resolvers it dispatches to
\* ---------------------------------------------------------------------------

\* The values an argument of the action can have: the key is missing, an
\* integer, or a text (a column given by its letters).
Missing == [t |-> "missing", n |-> 0, s |-> <<>>]
IntVal(n) == [t |-> "int", n |-> n, s |-> <<>>]
StrVal(s) == [t |-> "str", n |-> 0, s |-> s]
IsInt(v) == v.t = "int"

\* dict.get(key, default).
Get(v, default) == IF v.t = "missing" THEN default ELSE v

\* The outcome of a call: an exception, or the list returned.
Raised == [raised |-> TRUE, rects |-> <<>>]
Returned(rects) == [raised |-> FALSE, rects |-> rects]

\* try: ... except Exception: return [] around the body of a resolver.
TryExceptReraises(body) == body
TryExcept(body) == IF body.raised THEN Returned(<<>>) ELSE body

\* The table argument: missing, not a list, or a list of rows.
NoTable == [t |-> "missing", rows |-> 0, cols |-> 0]
IntTable == [t |-> "int", rows |-> 0, cols |-> 0]
Table(rows, cols) == [t |-> "list", rows |-> rows, cols |-> cols]

\* The desired_order argument: missing, or a list of names.
NoOrder == [t |-> "missing", names |-> {}]
Order(names) == [t |-> "list", names |-> names]

\* args that is a dictionary, and args that is a string.
DictArgs(sr, sc, er, ec, row, col, table, order) ==
    [kind |-> "dict", start_row |-> sr, start_col |-> sc, end_row |-> er,
     end_col |-> ec, row |-> row, col |-> col, table |-> table,
     desired_order |-> order]
StringArgs ==
    [kind |-> "str", start_row |-> Missing, start_col |-> Missing,
     end_row |-> Missing, end_col |-> Missing, row |-> Missing, col |-> Missing,
     table |-> NoTable, desired_order |-> NoOrder]
RangeArgs(sr, sc, er, ec) ==
    DictArgs(sr, sc, er, ec, Missing, Missing, NoTable, NoOrder)

\* The body of _get_excel_range_coordinates for any args (lines 1109-1171):
\* args.get on a string raises; a column that is not an integer raises in
\* _col_num_to_letter (line 1115), a row that is not an integer in the
\* arithmetic of the fallback (lines 1148-1149), no cell having matched it.
ExcelRangeBody(args, env) ==
    IF args.kind # "dict" THEN Raised
    ELSE LET start_row == Get(args.start_row, IntVal(1))
             start_col == Get(args.start_col, IntVal(1))
             end_row == Get(args.end_row, start_row)
             end_col == Get(args.end_col, start_col)
         IN  IF IsInt(start_row) /\ IsInt(start_col) /\ IsInt(end_row) /\ IsInt(end_col)
               THEN Returned(GetExcelRangeCoordinates(env.dict, env.app_rect, env.layout,
                                [start_row |-> start_row.n, start_col |-> start_col.n,
                                 end_row |-> end_row.n, end_col |-> end_col.n]).rects)
               ELSE Raised

ExcelRangeCoordinates(args, env) == TryExcept(ExcelRangeBody(args, env))

\* _get_excel_insert_table_coordinates (lines 663-688).
ExcelInsertTableCoordinates(args, env) ==
    TryExcept(
      IF args.kind # "dict" THEN Raised
      ELSE LET start_row == Get(args.start_row, IntVal(1))
               start_col == Get(args.start_col, IntVal(1))
               table == IF args.table.t = "missing" THEN Table(1, 0) ELSE args.table
           IN  IF table.t = "int" THEN Raised
               ELSE IF table.rows = 0 \/ table.cols = 0 THEN Returned(<<>>)
               ELSE IF ~IsInt(start_row) \/ ~IsInt(start_col) THEN Raised
               ELSE ExcelRangeCoordinates(
                        RangeArgs(start_row, start_col,
                                  IntVal(start_row.n + table.rows - 1),
                                  IntVal(start_col.n + table.cols - 1)), env))

\* if isinstance(col, str): col = self._col_letter_to_num(col).
ColumnArg(v) == IF v.t = "str" THEN IntVal(ColLetterToNum(v.s)) ELSE v

\* _get_excel_auto_fill_coordinates (lines 696-721).
ExcelAutoFillCoordinates(args, env) ==
    TryExcept(
      IF args.kind # "dict" THEN Raised
      ELSE LET start_row == Get(args.start_row, IntVal(1))
               start_col == Get(args.start_col, IntVal(1))
               end_row == Get(args.end_row, start_row)
               end_col == Get(args.end_col, start_col)
           IN  ExcelRangeCoordinates(
                   RangeArgs(start_row, ColumnArg(start_col), end_row,
                             ColumnArg(end_col)), env))

\* _get_excel_single_cell_coordinates (lines 729-750).
ExcelSingleCellCoordinates(args, env) ==
    TryExcept(
      IF args.kind # "dict" THEN Raised
      ELSE LET row == Get(args.row, IntVal(1))
               col == ColumnArg(Get(args.col, IntVal(1)))
           IN  ExcelRangeCoordinates(RangeArgs(row, col, row, col), env))

\* The header row of the active sheet as the COM object reads it:
\* Range(address).Value, <<>> where the cell is empty or the address is none.
NameText == <<"N", "a", "m", "e">>
AgeText == <<"A", "g", "e">>
ZipText == <<"Z", "i", "p">>
SheetValue(address) ==
    IF Upper(address) = <<"A", "1">> THEN NameText
    ELSE IF Upper(address) = <<"B", "1">> THEN AgeText
    ELSE <<>>

\* The first-row cells of the annotation dictionary (lines 771-795).
FirstRowCells(env) ==
    {c \in env.dict :
        /\ IsCellControl(c)
        /\ LET pos == InferCellPosition(c, env.app_rect, env.layout) IN
             pos # <<>> /\ pos[1] = 1}

\* The first-row cells that stand for a column of desired_order: by the value
\* the COM object reads at their address (lines 799-825), by their own text
\* when there is no COM object or its access raises (lines 826-854).
TargetColumns(names, env) ==
    {c \in FirstRowCells(env) :
        LET text == Strip(c.text) IN
          /\ text # <<>>
          /\ IF env.com = "ok"
               THEN SheetValue(text) # <<>> /\ SheetValue(text) \in names
               ELSE text \in names}

\* The rectangle over the matched columns (lines 856-879): from the leftmost to
\* the rightmost header cell, from the worksheet top to the estimated bottom of
\* the visible area.
ColumnsMergedRect(target_columns, app_rect, layout) ==
    [left |-> SetMin({c.rect.left : c \in target_columns}) - app_rect.left,
     top |-> layout.worksheet_top,
     right |-> SetMax({c.rect.right : c \in target_columns}) - app_rect.left,
     bottom |-> Min2(app_rect.height - 50, layout.worksheet_top + 600)]

\* The estimate of the whole visible worksheet (lines 881-893).
WorksheetRect(app_rect, layout) ==
    [left |-> layout.worksheet_left,
     top |-> layout.worksheet_top,
     right |-> Min2(app_rect.width - 50, layout.worksheet_left + 800),
     bottom |-> Min2(app_rect.height - 50, layout.worksheet_top + 600)]

\* _get_excel_columns_coordinates (lines 759-896).
ExcelColumnsCoordinates(args, env) ==
    TryExcept(
      IF args.kind # "dict" THEN Raised
      ELSE IF args.desired_order.names = {} THEN Returned(<<>>)
      ELSE LET target_columns == TargetColumns(args.desired_order.names, env) IN
           IF target_columns # {}
             THEN Returned(<<ColumnsMergedRect(target_columns, env.app_rect, env.layout)>>)
             ELSE Returned(<<WorksheetRect(env.app_rect, env.layout)>>))

\* _get_api_affected_coordinates (lines 632-655).
GetApiAffectedCoordinates(function_name, args, env) ==
    IF function_name = "select_table_range" THEN ExcelRangeCoordinates(args, env)
    ELSE IF function_name = "insert_excel_table"
      THEN ExcelInsertTableCoordinates(args, env)
    ELSE IF function_name = "get_range_values" THEN ExcelRangeCoordinates(args, env)
    ELSE IF function_name = "auto_fill" THEN ExcelAutoFillCoordinates(args, env)
    ELSE IF function_name = "set_cell_value" THEN ExcelSingleCellCoordinates(args, env)
    ELSE IF function_name = "reorder_columns" THEN ExcelColumnsCoordinates(args, env)
    ELSE Returned(<<>>)

\* The values the model gives to a row or a column.
ArgValues == {Missing, StrVal(<<"B">>)} \cup {IntVal(n) : n \in 1..MaxArg}

\* The args of an action of the given function: a string, or a dictionary
\* with the keys the function reads missing, integers or texts.
ArgsOf(function_name) ==
    {StringArgs} \cup
    IF function_name \in {"select_table_range", "get_range_values", "auto_fill"}
      THEN {RangeArgs(sr, sc, er, ec) :
                sr \in ArgValues, sc \in ArgValues, er \in ArgValues, ec \in ArgValues}
    ELSE IF function_name = "insert_excel_table"
      THEN {DictArgs(sr, sc, Missing, Missing, Missing, Missing, table, NoOrder) :
                sr \in ArgValues, sc \in ArgValues,
                table \in {NoTable, IntTable, Table(0, 0), Table(1, 0),
                           Table(1, 1), Table(2, 2)}}
    ELSE IF function_name = "set_cell_value"
      THEN {DictArgs(Missing, Missing, Missing, Missing, row, col, NoTable, NoOrder) :
                row \in ArgValues, col \in ArgValues}
    ELSE IF function_name = "reorder_columns"
      THEN {DictArgs(Missing, Missing, Missing, Missing, Missing, Missing, NoTable, order) :
                order \in {NoOrder, Order({}), Order({AgeText}),
                           Order({NameText, AgeText}), Order({<<"B", "1">>}),
                           Order({ZipText})}}
    ELSE {RangeArgs(IntVal(1), IntVal(1), Missing, Missing)}

\* What the window shows when the action has run: for reorder_columns up to
\* MaxCells controls in any window, for the other functions one control at most.
EnvironmentsOf(function_name) ==
    IF function_name = "reorder_columns"
      THEN {[dict |-> d, app_rect |-> w, layout |-> l, com |-> com] :
                d \in {s \in SUBSET CandidateControls : Cardinality(s) <= MaxCells},
                w \in CandidateWindows \cup SmallWindows,
                l \in CandidateLayouts,
                com \in {"ok", "none", "raises"}}
      ELSE {[dict |-> d, app_rect |-> w, layout |-> l, com |-> "none"] :
                d \in {s \in SUBSET CandidateControls : Cardinality(s) <= 1},
                w \in CandidateWindows,
                l \in CandidateLayouts}

ApiInit ==
    /\ \E function_name \in RangeFunctions \cup {"click_input", "table2markdown"} :
         \E args \in ArgsOf(function_name), env \in EnvironmentsOf(function_name) :
            aIn = [function |-> function_name, args |-> args, env |-> env]
    /\ aOut = [called |-> FALSE, raised |-> FALSE, rects |-> <<>>]

\* A call of _get_api_affected_coordinates on the executed action.
get_api_affected_coordinates ==
    /\ ~aOut.called
    /\ LET r == GetApiAffectedCoordinates(aIn.function, aIn.args, aIn.env) IN
         aOut' = [called |-> TRUE, raised |-> r.raised, rects |-> r.rects]
    /\ UNCHANGED aIn

\* ---------------------------------------------------------------------------
\* capture_screenshot and the CONTROL_LIST of the shared configuration
\* ---------------------------------------------------------------------------

\* The list capture_screenshot puts in place for the API annotation
\* dictionary (line 316).
ApiControlList ==
    {"Button", "Edit", "TabItem", "Document", "ListItem", "MenuItem", "ScrollBar",
     "TreeItem", "Hyperlink", "ComboBox", "RadioButton", "Spinner", "CheckBox",
     "DataItem"}

\* CONTROL_LIST as a deployment configures it; the empty list stands also for
\* a configuration without the key (configs.get("CONTROL_LIST", [])).
ConfiguredControlLists == {{}, {"Button", "Edit"}, {"DataItem"}, ApiControlList}

\* The places where a call inside capture_screenshot can raise: before the
\* list is replaced (lines 286-312), in get_control_list under the replaced
\* list (line 317), after the list was put back (lines 319-398).
CaptureOutcomes == {"ok", "raises_before", "raises_in_api_list", "raises_after"}

\* CONTROL_LIST when capture_screenshot is left with the given outcome
\* (lines 315-318).
ControlListAfter(original_control_list, outcome) ==
    IF outcome = "raises_in_api_list" THEN ApiControlList
    ELSE original_control_list

\* The control types get_control_list asks the inspector for (lines 176-195):
\* CONTROL_LIST under a uia or win32 backend, nothing with omniparser alone.
ControlTypesAsked(cfg, control_list) ==
    IF cfg.CONTROL_BACKEND \in {"uia", "win32"} THEN control_list ELSE {}

ConfigInit ==
    /\ \E backend \in {"uia", "win32", "omniparser"},
          control_list \in ConfiguredControlLists :
         configs = [CONTROL_BACKEND |-> backend, CONTROL_LIST |-> control_list]
    /\ uOut = [calls |-> 0, outcome |-> "none", before |-> {},
               annotation_list |-> {}, api_list |-> {}]

\* capture_screenshot of one step (lines 260-398, wrapped by
\* exception_capture): annotation_list and api_list are the control types
\* get_control_list asks for in the call of line 307 and in the call of
\* line 317.
capture_screenshot_config ==
    /\ uOut.calls < MaxCaptures
    /\ \E outcome \in CaptureOutcomes :
         /\ uOut' = [calls |-> uOut.calls + 1, outcome |-> outcome,
                     before |-> configs.CONTROL_LIST,
                     annotation_list |->
                         ControlTypesAsked(configs, configs.CONTROL_LIST),
                     api_list |->
                         IF outcome = "raises_before" THEN {}
                         ELSE ControlTypesAsked(configs, ApiControlList)]
         /\ configs' = [configs EXCEPT
                          !.CONTROL_LIST = ControlListAfter(configs.CONTROL_LIST, outcome)]

\* ---------------------------------------------------------------------------
\* _infer_cell_position on one control
\* ---------------------------------------------------------------------------

\* Texts a control can carry: addresses in either case and with blanks around,
\* an address with row 0, a two-letter column, an address-shaped text of eleven
\* characters, and texts that are no address.
CandidateTexts ==
    { <<"A", "1">>, <<"b", "2">>, <<" ", "a", "2", " ">>, <<"A", "B", "1", "2">>,
      <<"C", "0">>, <<"A", "A", "A", "A", "A", "A", "A", "A", "A", "A", "1">>,
      <<"1", "A">>, <<"A">>, <<"7">>, <<"A", "1", "B">>, <<"O", "K">>, <<>> }

\* Where a control can lie: steps of half a cell from the corner of the window.
CandidateRects ==
    {Rect(36 * i, 30 + 10 * j, 36 * i + 72, 51 + 10 * j) :
        i \in 0..MaxOffset, j \in 0..(10 * MaxOffset)}

InferInit ==
    /\ \E text \in CandidateTexts, rect \in CandidateRects,
          app \in CandidateWindows, layout \in CandidateLayouts :
         eIn = [control |-> [text |-> text, rect |-> rect, control_type |-> "DataItem",
                             class_name |-> "", source |-> "uia"],
                app_rect |-> app, layout |-> layout]
    /\ eOut = [called |-> FALSE, pos |-> <<>>]

\* A call of _infer_cell_position on the control.
infer_cell_position ==
    /\ ~eOut.called
    /\ eOut' = [called |-> TRUE,
                pos |-> InferCellPosition(eIn.control, eIn.app_rect, eIn.layout)]
    /\ UNCHANGED eIn

\* ---------------------------------------------------------------------------
\* update_memory: the record of a step in the agent memory and in the log
\* ---------------------------------------------------------------------------

\* UserConfirm as sync_memory sets it (lines 1235-1240).
SyncedUserConfirm(step_status) ==
    IF step_status = "CONFIRM" THEN "Yes" ELSE "None"

\* Memory.add_memory_item keeps the item it is given, not a copy of it, and
\* MemoryItem.to_dict makes a new dictionary of the item's values.
AddMemoryItem(content, item_id) == Append(content, item_id)
ToDict(item) == item

\* UserConfirm of the item when update_memory is done (lines 1269-1276).
UserConfirmAfterUpdate(step_status, is_resumed) ==
    IF step_status = "CONFIRM"
      THEN IF is_resumed THEN "Yes" ELSE "No"
      ELSE SyncedUserConfirm(step_status)

RecordInit ==
    /\ memoryItems = <<>>
    /\ agentMemory = <<>>
    /\ structuralLogs = <<>>
    /\ blackboard = <<>>

\* update_memory of one step (lines 1249-1280). The item is the object
\* self._memory_data: the agent memory is given the object itself (line 1257),
\* the structural log the dictionary to_dict() makes of it at that moment
\* (line 1260); the item is changed afterwards (lines 1269-1276). An exception
\* of sync_memory leaves before anything is added, one of the blackboard
\* update after both were added.
update_memory_records ==
    /\ Len(memoryItems) < MaxSteps
    /\ \E step_status \in ModelStatuses, is_resumed \in BOOLEAN,
          outcome \in {"ok", "sync_raises", "blackboard_raises"} :
         LET id == Len(memoryItems) + 1
             created == [Step |-> id, status |-> step_status,
                         is_resumed |-> is_resumed, UserConfirm |-> "unset"]
             synced == [created EXCEPT !.UserConfirm = SyncedUserConfirm(step_status)]
             updated == [created EXCEPT
                           !.UserConfirm = UserConfirmAfterUpdate(step_status, is_resumed)]
         IN  IF outcome = "sync_raises"
               THEN /\ memoryItems' = Append(memoryItems, created)
                    /\ UNCHANGED <<agentMemory, structuralLogs, blackboard>>
               ELSE /\ memoryItems' = Append(memoryItems, updated)
                    /\ agentMemory' = AddMemoryItem(agentMemory, id)
                    /\ structuralLogs' = Append(structuralLogs, ToDict(synced))
                    /\ blackboard' = IF outcome = "ok"
                                       THEN Append(blackboard, updated)
                                       ELSE blackboard

LayoutIdle == dIn = <<>> /\ dOut = <<>>
SynthIdle == sIn = <<>> /\ sOut = <<>>
CacheIdle ==
    /\ now = 0 /\ layoutCache = <<>> /\ cacheTimestamp = <<>>
    /\ lastClear = 0 /\ cOut = <<>>
ColIdle == nIn = 0 /\ nOut = <<>>
CloserIdle == kIn = <<>> /\ kOut = <<>>
SaveIdle == vIn = <<>> /\ vOut = <<>>
ClientIdle == bIn = <<>> /\ bOut = <<>>
ResponseIdle == gIn = <<>> /\ gOut = <<>>
ApiIdle == aIn = <<>> /\ aOut = <<>>
ConfigIdle == configs = <<>> /\ uOut = <<>>
InferIdle == eIn = <<>> /\ eOut = <<>>
RecordIdle == memoryItems = <<>> /\ agentMemory = <<>> /\ structuralLogs = <<>> /\ blackboard = <<>>

\* The parts of the state a specification does not use stay idle.
IdleBut(group) ==
    /\ group = "step" \/ StepIdle
    /\ group = "filter" \/ FilterIdle
    /\ group = "range" \/ RangeIdle
    /\ group = "layout" \/ LayoutIdle
    /\ group = "synthetic" \/ SynthIdle
    /\ group = "cache" \/ CacheIdle
    /\ group = "columns" \/ ColIdle
    /\ group = "closer" \/ CloserIdle
    /\ group = "save" \/ SaveIdle
    /\ group = "client" \/ ClientIdle
    /\ group = "response" \/ ResponseIdle
    /\ group = "api" \/ ApiIdle
    /\ group = "config" \/ ConfigIdle
    /\ group = "infer" \/ InferIdle
    /\ group = "record" \/ RecordIdle

Init == StepInit /\ IdleBut("step")

Next ==
    \/ capture_screenshot /\ UNCHANGED exceptStepVars
    \/ get_control_info /\ UNCHANGED exceptStepVars
    \/ get_prompt_message /\ UNCHANGED exceptStepVars
    \/ get_response /\ UNCHANGED exceptStepVars
    \/ parse_response /\ UNCHANGED exceptStepVars
    \/ execute_action /\ UNCHANGED exceptStepVars
    \/ update_memory /\ UNCHANGED exceptStepVars
    \/ NextStep /\ UNCHANGED exceptStepVars

Spec == Init /\ [][Next]_vars

InitFilter == FilterInit /\ IdleBut("filter")

NextFilter == FilterInCapture /\ UNCHANGED exceptFilterVars

SpecFilter == InitFilter /\ [][NextFilter]_vars

InitRange == RangeInit /\ IdleBut("range")

NextRange == get_excel_range_coordinates /\ UNCHANGED exceptRangeVars

SpecRange == InitRange /\ [][NextRange]_vars

InitSynthetic == SynthInit /\ IdleBut("synthetic")

NextSynthetic == resolve_both_paths /\ UNCHANGED exceptSynthVars

SpecSynthetic == InitSynthetic /\ [][NextSynthetic]_vars

InitCache == CacheInit /\ IdleBut("cache")

NextCache ==
    \/ \E p \in Processors, w \in Windows :
          detect_excel_interface_layout(p, w) /\ UNCHANGED exceptCacheVars
    \/ \E p \in Processors : clear_excel_layout_cache(p) /\ UNCHANGED exceptCacheVars
    \/ Tick /\ UNCHANGED exceptCacheVars

SpecCache == InitCache /\ [][NextCache]_vars

InitLayout == LayoutInit /\ IdleBut("layout")

NextLayout == scan_layout /\ UNCHANGED exceptLayoutVars

SpecLayout == InitLayout /\ [][NextLayout]_vars

InitColumns == ColInit /\ IdleBut("columns")

NextColumns == col_round_trip /\ UNCHANGED exceptColVars

SpecColumns == InitColumns /\ [][NextColumns]_vars

InitCloser == CloserInit /\ IdleBut("closer")

NextCloser ==
    \/ terminate_application_processes /\ UNCHANGED exceptCloserVars
    \/ handle_process /\ UNCHANGED exceptCloserVars

SpecCloser == InitCloser /\ [][NextCloser]_vars

InitSaveClose == SaveInit /\ IdleBut("save")

NextSaveClose ==
    \/ save_and_close_app /\ UNCHANGED exceptSaveVars
    \/ save_and_close_turn /\ UNCHANGED exceptSaveVars

SpecSaveClose == InitSaveClose /\ [][NextSaveClose]_vars

InitClient == ClientInit /\ IdleBut("client")

NextClient ==
    \/ next_session /\ UNCHANGED exceptClientVars
    \/ run_returns /\ UNCHANGED exceptClientVars
    \/ worker_takes /\ UNCHANGED exceptClientVars
    \/ worker_done /\ UNCHANGED exceptClientVars
    \/ executor_shutdown /\ UNCHANGED exceptClientVars

SpecClient == InitClient /\ [][NextClient]_vars

InitResponse == ResponseInit /\ IdleBut("response")

NextResponse ==
    \/ get_response_turn /\ UNCHANGED exceptResponseVars
    \/ sync_memory_cost /\ UNCHANGED exceptResponseVars

SpecResponse == InitResponse /\ [][NextResponse]_vars

InitApi == ApiInit /\ IdleBut("api")

NextApi == get_api_affected_coordinates /\ UNCHANGED exceptApiVars

SpecApi == InitApi /\ [][NextApi]_vars

InitConfig == ConfigInit /\ IdleBut("config")

NextConfig == capture_screenshot_config /\ UNCHANGED exceptConfigVars

SpecConfig == InitConfig /\ [][NextConfig]_vars

InitInfer == InferInit /\ IdleBut("infer")

NextInfer == infer_cell_position /\ UNCHANGED exceptInferVars

SpecInfer == InitInfer /\ [][NextInfer]_vars

InitRecord == RecordInit /\ IdleBut("record")

NextRecord == update_memory_records /\ UNCHANGED exceptRecordVars

SpecRecord == InitRecord /\ [][NextRecord]_vars

InitRangeAnyIntegers == RangeInitAnyIntegers /\ IdleBut("range")

SpecRangeAnyIntegers == InitRangeAnyIntegers /\ [][NextRange]_vars

\* ---------------------------------------------------------------------------
\* Properties of the step processor (Spec)
\* ---------------------------------------------------------------------------

\* The records of step n in a sequence of records.
RecordsOf(records, n) == {i \in DOMAIN records : records[i].Step = n}

\* Step n has exactly one record in records, and its error field is non-empty.
OneErrorRecord(records, n) ==
    /\ Cardinality(RecordsOf(records, n)) = 1
    /\ \A i \in RecordsOf(records, n) : records[i].error # {}

\* The label of the response is a key of the annotation dictionary.
LabelIsKey == controlLabel \in 1..annotationDict

\* C1: an exception raised inside any state of a step, the memory sync
\* included, never propagates out of the step processor, and the step that
\* raised ends with exactly one record in the agent memory and one in the
\* session log, each with a non-empty error field.
C1_ExceptionCapturedAndRecorded ==
    /\ ~escaped
    /\ (pc = "done" /\ raisedIn # "none")
         => /\ OneErrorRecord(memory, sessionStep)
            /\ OneErrorRecord(log, sessionStep)

\* C2: within a step the states are entered in the order capture_screenshot,
\* get_control_info, get_prompt_message, get_response, parse_response,
\* execute_action, update_memory, and a state is entered only if every earlier
\* state of the step completed without an exception: a state that raised is the
\* last state the step entered.
C2_StatesInOrderAndGated ==
    /\ Len(entered) <= Len(StateOrder)
    /\ \A i \in DOMAIN entered : entered[i] = StateOrder[i]
    /\ raisedIn # "none" => (entered # <<>> /\ entered[Len(entered)] = raisedIn)
    /\ pc \notin {"done", "off"} =>
         (raisedIn = "none" /\ Len(entered) = StateIndex(pc) - 1)

\* A step ran all seven states to the end.
C2_Witness ==
    pc = "done" /\ entered = StateOrder /\ raisedIn = "none"

\* C3 as stated: when every response of the step fails to parse, the request is
\* re-issued JSON_PARSING_RETRY times after the first failed attempt, that is
\* JSON_PARSING_RETRY + 1 calls in all.
C3_RetriedRetryTimesAfterFirst ==
    allFailed => modelCalls = JSON_PARSING_RETRY + 1

\* C3 amended: when every response of the step fails to parse, the request is
\* issued exactly JSON_PARSING_RETRY times in all (JSON_PARSING_RETRY - 1
\* re-issues after the first failed attempt), and no call is made afterwards.
C3_IssuedRetryTimesInAll ==
    allFailed => modelCalls = JSON_PARSING_RETRY

\* Every response failed, and the step ended in parse_response's error.
C3_Witness ==
    allFailed /\ pc = "done" /\ raisedIn = "parse_response"

C6_EvidencePathByPriority ==
    ("execute_action" \in {entered[i] : i \in DOMAIN entered}) =>
        /\ evidence \in {"control", "api_rects", "clean_copy"}
        /\ LabelIsKey => evidence = "control"
        /\ (~LabelIsKey /\ apiCoords > 0) => evidence = "api_rects"
        /\ (~LabelIsKey /\ apiCoords = 0) => evidence = "clean_copy"
        /\ evidence = "clean_copy" => raisedIn # "execute_action"

\* No control resolved and the resolver's rectangles were highlighted.
C6_Witness ==
    evidence = "api_rects" /\ ~LabelIsKey /\ actionResult.done /\ pc = "done"

\* ---------------------------------------------------------------------------
\* Properties of the control filter (SpecFilter)
\* ---------------------------------------------------------------------------

\* The stages the configuration enables.
EnabledStages ==
    {st \in {"text", "semantic", "icon"} : \E t \in fIn.types : Lower(t) = st}

\* The filter runs: a filter type is configured and there is a previous plan.
FilterApplies == fIn.types # {} /\ fIn.prev_plan # <<>>

\* C7: with a non-empty filter configuration and a non-empty previous plan, the
\* dictionary get_filtered_annotation_dict returns is the union of the subsets
\* selected by the enabled stages, so each of its (label, control) pairs is a
\* pair of the input dictionary.
C7_FilteredIsUnionOfStages ==
    (fOut.called /\ FilterApplies /\ ~fOut.raised) =>
        /\ fOut.dict = UNION {fIn.sel[st] : st \in EnabledStages}
        /\ fOut.dict \subseteq fIn.dict
        /\ fOut.stagesRun = EnabledStages

\* Two stages ran and the result is a proper, non-empty part of the input.
C7_Witness ==
    /\ fOut.called /\ FilterApplies /\ ~fOut.raised
    /\ Cardinality(fOut.stagesRun) >= 2
    /\ fOut.dict # {} /\ fOut.dict # fIn.dict
    /\ \E st \in fOut.stagesRun : fIn.sel[st] # fOut.dict

\* C8: with an empty CONTROL_FILTER_TYPE, or an empty previous plan,
\* get_filtered_annotation_dict returns the input dictionary unchanged and runs
\* no filter stage.
C8_NoFilterIsIdentity ==
    (fOut.called /\ ~FilterApplies) =>
        /\ ~fOut.raised
        /\ fOut.dict = fIn.dict
        /\ fOut.stagesRun = {}

\* Stages are configured, but there is no previous plan: the dictionary is
\* returned as it came, although the stages would have selected less.
C8_Witness ==
    /\ fOut.called /\ fIn.types # {} /\ fIn.prev_plan = <<>>
    /\ fIn.dict # {} /\ fOut.dict = fIn.dict
    /\ \A st \in {"text", "semantic", "icon"} : fIn.sel[st] = {}

\* C9: when the model of an enabled stage is unavailable, that stage is
\* skipped: the filter still returns the union of what the other enabled stages
\* select, and capture_screenshot does not fail because of it.
C9_UnavailableStageSkipped ==
    (fOut.called /\ FilterApplies /\ (fIn.unavailable \cap EnabledStages) # {}) =>
        /\ ~fOut.raised
        /\ ~fOut.captureError
        /\ fOut.dict = UNION {fIn.sel[st] : st \in EnabledStages \ fIn.unavailable}

\* ---------------------------------------------------------------------------
\* Properties of the cell-range coordinate resolver (SpecRange)
\* ---------------------------------------------------------------------------

\* The cell controls of the dictionary whose inferred address is in the range.
MatchingCells ==
    {c \in rIn.dict :
        /\ IsCellControl(c)
        /\ InferCellPosition(c, rIn.app_rect, rIn.layout) # <<>>
        /\ InferCellPosition(c, rIn.app_rect, rIn.layout)[1]
             \in rIn.args.start_row..rIn.args.end_row
        /\ InferCellPosition(c, rIn.app_rect, rIn.layout)[2]
             \in rIn.args.start_col..rIn.args.end_col}

\* The cell "A1" at (100, 200, 150, 220) of the scenario.
CellA1 ==
    [text |-> <<"A", "1">>, rect |-> Rect(100, 200, 150, 220),
     control_type |-> "DataItem", class_name |-> "", source |-> "uia"]

\* C10: when the API annotation dictionary holds a cell control whose inferred
\* (row, col) lies in the range, _get_excel_range_coordinates returns exactly
\* one rectangle, taken from the annotation and not from the layout: before
\* clamping it is (min left, min top, max right, max bottom) of those cells
\* minus the window's top-left corner, and the rectangle returned is that one
\* clamped to the window. For the single cell "A1" at (100, 200, 150, 220) and
\* the range A1:A1 it is that rectangle minus the window origin.
C10_AnnotationBoundingBox ==
    (rOut.called /\ MatchingCells # {}) =>
        /\ rOut.tier = "annotation"
        /\ Len(rOut.rects) = 1
        /\ \A c \in MatchingCells :
             /\ rOut.before.left <= c.rect.left - rIn.app_rect.left
             /\ rOut.before.top <= c.rect.top - rIn.app_rect.top
             /\ rOut.before.right >= c.rect.right - rIn.app_rect.left
             /\ rOut.before.bottom >= c.rect.bottom - rIn.app_rect.top
        /\ \E c \in MatchingCells : rOut.before.left = c.rect.left - rIn.app_rect.left
        /\ \E c \in MatchingCells : rOut.before.top = c.rect.top - rIn.app_rect.top
        /\ \E c \in MatchingCells : rOut.before.right = c.rect.right - rIn.app_rect.left
        /\ \E c \in MatchingCells :
             rOut.before.bottom = c.rect.bottom - rIn.app_rect.top
        /\ rOut.rects[1] = ClampToWindow(rOut.before, rIn.app_rect)
        /\ (rIn.dict = {CellA1} /\ rIn.args.end_row = 1 /\ rIn.args.end_col = 1) =>
             rOut.before = Rect(100 - rIn.app_rect.left, 200 - rIn.app_rect.top,
                                150 - rIn.app_rect.left, 220 - rIn.app_rect.top)

\* Two cells of the range were merged, in a window off the screen origin that
\* holds the merged rectangle whole.
C10_Witness ==
    /\ rOut.called /\ Cardinality(MatchingCells) = 2
    /\ rIn.app_rect.left > 0
    /\ \E c, d \in MatchingCells : c.rect.left < d.rect.left
    /\ rOut.rects = <<rOut.before>>

\* C11: the landmark path is taken exactly when the annotation dictionary
\* holds no cell control whose inferred address is in the range, and before
\* clamping its rectangle is left = worksheet_left + (start_col - 1) *
\* cell_width, top = worksheet_top + (start_row - 1) * cell_height, right =
\* worksheet_left + end_col * cell_width, bottom = worksheet_top + end_row *
\* cell_height, with the values of the layout.
C11_LandmarkRectangleFromLayout ==
    rOut.called =>
        /\ (rOut.tier = "landmark") <=> (MatchingCells = {})
        /\ rOut.tier = "landmark" =>
             /\ rOut.before.left = rIn.layout.worksheet_left
                    + (rIn.args.start_col - 1) * rIn.layout.cell_width
             /\ rOut.before.top = rIn.layout.worksheet_top
                    + (rIn.args.start_row - 1) * rIn.layout.cell_height
             /\ rOut.before.right = rIn.layout.worksheet_left
                    + rIn.args.end_col * rIn.layout.cell_width
             /\ rOut.before.bottom = rIn.layout.worksheet_top
                    + rIn.args.end_row * rIn.layout.cell_height

\* The dictionary holds cells, none of them in the range B2:B2, and the
\* rectangle of the measured layout lies whole in the window.
C11_Witness ==
    /\ rOut.called /\ rOut.tier = "landmark"
    /\ \E c \in rIn.dict : IsCellControl(c)
    /\ rIn.args = [start_row |-> 2, start_col |-> 2, end_row |-> 2, end_col |-> 2]
    /\ rOut.before = Rect(110, 160, 160, 180)
    /\ rOut.rects = <<rOut.before>>

\* C12: for a window of width >= 1 and height >= 1 and any integer range
\* arguments, a start after its end and rows or columns that are not positive
\* included, every rectangle _get_excel_range_coordinates returns, from either
\* path, has 0 <= left < right <= width and 0 <= top < bottom <= height.
C12_RectanglesInsideWindow ==
    rOut.called =>
        \A i \in DOMAIN rOut.rects :
            /\ 0 <= rOut.rects[i].left
            /\ rOut.rects[i].left < rOut.rects[i].right
            /\ rOut.rects[i].right <= rIn.app_rect.width
            /\ 0 <= rOut.rects[i].top
            /\ rOut.rects[i].top < rOut.rects[i].bottom
            /\ rOut.rects[i].bottom <= rIn.app_rect.height

\* A range that ends before it starts, from a row that is not positive, whose
\* rectangle had no width before it was clamped.
C12_Witness ==
    /\ rOut.called /\ Len(rOut.rects) = 1
    /\ rIn.args.start_col > rIn.args.end_col /\ rIn.args.start_row <= 0
    /\ rOut.before.right <= rOut.before.left
    /\ rOut.rects[1].left < rOut.rects[1].right

\* ---------------------------------------------------------------------------
\* Properties of the two paths on a synthetic window (SpecSynthetic)
\* ---------------------------------------------------------------------------

\* The distance between two numbers.
Distance(x, y) == IF x >= y THEN x - y ELSE y - x

\* C13: on a synthetic window where every cell of the range has a cell control
\* carrying its address as text, the header landmarks are adjacent and evenly
\* spaced and the range lies inside the window, the rectangle of the
\* annotation path and the rectangle of the landmark path for the same range
\* differ on each edge by at most 3 pixels.
C13_PathsAgreeWithinThreePixels ==
    sOut.called =>
        /\ sOut.annotation.tier = "annotation" /\ sOut.landmark.tier = "landmark"
        /\ Len(sOut.annotation.rects) = 1 /\ Len(sOut.landmark.rects) = 1
        /\ Distance(sOut.annotation.rects[1].left, sOut.landmark.rects[1].left) <= 3
        /\ Distance(sOut.annotation.rects[1].top, sOut.landmark.rects[1].top) <= 3
        /\ Distance(sOut.annotation.rects[1].right, sOut.landmark.rects[1].right) <= 3
        /\ Distance(sOut.annotation.rects[1].bottom, sOut.landmark.rects[1].bottom) <= 3

\* ---------------------------------------------------------------------------
\* Properties of the layout cache (SpecCache)
\* ---------------------------------------------------------------------------

\* The latest call found an entry for its window that was computed less than
\* TTL seconds before.
FoundFreshEntry == cOut.called /\ cOut.before.present /\ cOut.time - cOut.before.at < TTL

\* C14: when the scan recognizes no landmark in the window, or raises,
\* _detect_excel_interface_layout returns exactly the default layout
\* {48, 201, 72, 21} and stores it under the window's key, and the next call
\* for the same window within the TTL returns it without a new scan.
C14_FailureCachesDefault ==
    /\ (cOut.called /\ ~cOut.from_cache /\ cOut.failed) =>
          /\ cOut.layout = DefaultLayout
          /\ cOut.stored.present /\ cOut.stored.layout = DefaultLayout
          /\ cOut.stored.for = cOut.window
    /\ (FoundFreshEntry /\ cOut.before.failed) =>
          /\ cOut.from_cache
          /\ cOut.layout = DefaultLayout

\* C15: a layout served from the cache for a window was computed for that
\* window, less than 30 seconds before the call and not before the latest
\* clear_excel_layout_cache; an entry older than 30 seconds is never returned,
\* whatever was detected for other windows in between.
C15_ServedLayoutIsFresh ==
    (cOut.called /\ cOut.from_cache) =>
        /\ cOut.before.present
        /\ cOut.before.for = cOut.window
        /\ cOut.time - cOut.before.at < TTL
        /\ cOut.before.at >= cOut.cleared_at

\* C16: a layout cached for a window by one processor is returned, without a
\* new scan, to any other processor that asks for that window less than 30
\* seconds later.
C16_CacheSharedByProcessors ==
    (FoundFreshEntry /\ cOut.before.by # cOut.processor) =>
        /\ cOut.from_cache
        /\ cOut.layout = cOut.before.layout

\* The bounds of a layout.
LayoutInBounds(layout) ==
    /\ 15 <= layout.worksheet_left /\ layout.worksheet_left <= 250
    /\ 80 <= layout.worksheet_top /\ layout.worksheet_top <= 500
    /\ 25 <= layout.cell_width /\ layout.cell_width <= 400
    /\ 12 <= layout.cell_height /\ layout.cell_height <= 120

\* C17: every layout _detect_excel_interface_layout returns, freshly scanned,
\* default or from the cache, has 15 <= worksheet_left <= 250, 80 <=
\* worksheet_top <= 500, 25 <= cell_width <= 400 and 12 <= cell_height <= 120.
C17_LayoutWithinBounds ==
    /\ cOut.called => LayoutInBounds(cOut.layout)
    /\ \A w \in Windows : layoutCache[w].present => LayoutInBounds(layoutCache[w].layout)

\* A layout measured beyond the bounds, cut to them, served from the cache.
C17_Witness ==
    /\ cOut.called /\ cOut.from_cache /\ ~cOut.before.failed
    /\ cOut.layout.worksheet_left = 250 /\ cOut.layout.worksheet_top = 500
    /\ cOut.layout.cell_width = 100

\* ---------------------------------------------------------------------------
\* Properties of the scan (SpecLayout)
\* ---------------------------------------------------------------------------

\* v is the median of a non-empty sequence of numbers: at most half of them
\* are below it and at most half above it, and it is the mean of the two
\* middle ones when their number is even.
IsMedian(v, values) ==
    LET n == Len(values)
        below(x) == Cardinality({i \in 1..n : values[i] < x})
        above(x) == Cardinality({i \in 1..n : values[i] > x})
        Middle(x) == 2 * below(x) <= n /\ 2 * above(x) <= n
        lower == CHOOSE i \in 1..n :
                    Middle(values[i]) /\ \A j \in 1..n : Middle(values[j]) => values[i] <= values[j]
        upper == CHOOSE i \in 1..n :
                    Middle(values[i]) /\ \A j \in 1..n : Middle(values[j]) => values[i] >= values[j]
    IN  2 * v = values[lower] + values[upper]

\* C18: with at least two column headers (row headers) found, the cell width
\* (height) before the bounds are applied is the median of the spacings
\* between consecutive headers sorted by their left (top) coordinate, whether
\* the number of spacings is odd or even.
C18_CellSizeIsMedianSpacing ==
    dOut.called =>
        /\ dOut.column_headers >= 2 => IsMedian(dOut.measured.cell_width, dIn.col_gaps)
        /\ dOut.row_headers >= 2 => IsMedian(dOut.measured.cell_height, dIn.row_gaps)

\* ---------------------------------------------------------------------------
\* Properties of the column letters (SpecColumns)
\* ---------------------------------------------------------------------------

\* C19: for every column number n from 1 to 702, _col_num_to_letter(n) is a
\* string L of one or two letters A..Z with _col_letter_to_num(L) = n and
\* _col_num_to_letter(_col_letter_to_num(L)) = L; 1 gives "A", 27 gives "AA"
\* and 702 gives "ZZ".
C19_ColumnLettersRoundTrip ==
    (nOut.called /\ 1 <= nIn /\ nIn <= 702) =>
        /\ Len(nOut.letters) \in {1, 2}
        /\ \A i \in DOMAIN nOut.letters : IsUpperLetter(nOut.letters[i])
        /\ nOut.number = nIn
        /\ nOut.letters_again = nOut.letters
        /\ nIn = 1 => nOut.letters = <<"A">>
        /\ nIn = 27 => nOut.letters = <<"A", "A">>
        /\ nIn = 702 => nOut.letters = <<"Z", "Z">>

\* The last column of two letters went to "ZZ" and back.
C19_Witness ==
    nOut.called /\ nIn = 702 /\ nOut.letters = <<"Z", "Z">> /\ nOut.number = 702

\* ---------------------------------------------------------------------------
\* Properties of the application closer (SpecCloser)
\* ---------------------------------------------------------------------------

\* What is sent to one process is a part of COM, GUI, kill, in that order.
InMethodOrder(sent) ==
    sent \in {<<>>, <<"com">>, <<"gui">>, <<"kill">>, <<"com", "gui">>,
              <<"com", "kill">>, <<"gui", "kill">>, <<"com", "gui", "kill">>}

\* A method was sent to the process.
Sent(h, method) == \E i \in DOMAIN h.sent : h.sent[i] = method

\* C20: terminate_application_processes tries the methods for a process in the
\* order COM save-and-close, GUI graceful close, force kill: COM only when a
\* save path is mapped to the PID and the process is an Office application,
\* GUI only if the process is not confirmed closed, the kill only if the
\* process still exists and either a graceful attempt was made and did not
\* close it or no graceful method is available; nothing is sent to any process
\* when close is False.
C20_MethodsInOrderAndGuarded ==
    /\ kIn.close = FALSE => kOut.handled = <<>>
    /\ \A i \in DOMAIN kOut.handled :
         LET h == kOut.handled[i]
             proc == kIn.processes_to_terminate[i]
         IN  /\ InMethodOrder(h.sent)
             /\ Sent(h, "com") =>
                   proc.has_save_path /\ UpperName(proc.name) \in OfficeProgIds
             /\ Sent(h, "gui") => ~h.closed_by_com
             /\ Sent(h, "kill") =>
                   /\ h.existed_at_kill
                   /\ \/ (Sent(h, "com") \/ Sent(h, "gui")) /\ ~h.closed_before_kill
                      \/ ~GracefulAvailable(kIn.cfg)

\* All three methods were sent to an Office process with a save path, and the
\* next process, on the same platform, was closed by the GUI attempt alone.
C20_Witness ==
    /\ kOut.pc = "returned" /\ Len(kOut.handled) = 2
    /\ kOut.handled[1].sent = <<"com", "gui", "kill">>
    /\ kOut.handled[1].process_closed
    /\ kOut.handled[2].sent = <<"gui">>
    /\ kOut.handled[2].process_closed

\* ---------------------------------------------------------------------------
\* Properties of save_and_close_app (SpecSaveClose)
\* ---------------------------------------------------------------------------

\* C21: save_and_close_app acts only on the first running instance of the
\* application that it found: when several processes have the name, the save,
\* the GUI close and the kill are attempted on the found PID only, and nothing
\* is sent to the other instances.
C21_OnlyFoundInstanceTouched ==
    \A i \in DOMAIN vOut.handled :
        vOut.handled[i].pid # vOut.target_pid => vOut.handled[i].sent = <<>>

\* ---------------------------------------------------------------------------
\* Properties of UFOClientManager.run_all (SpecClient)
\* ---------------------------------------------------------------------------

\* C22: with UPLOAD enabled, the upload task submitted after session k reads
\* the log_path of session k, whenever a worker comes to run it and however
\* far the main loop has moved on by then.
C22_UploadReadsOwnSession ==
    \A t \in DOMAIN bOut.tasks :
        bOut.tasks[t].state # "queued" => bOut.tasks[t].read = bOut.tasks[t].after

\* C23 (as stated): the sessions are dispatched to the worker pool, so the
\* calling thread is not held inside run() while a session is running.
C23_SessionsDispatchedToPool ==
    (\E k \in 1..MaxSessions : bOut.run[k] = "running") => bOut.pc # "in_run"

\* C23 (amended): run_all runs the sessions one after another on the calling
\* thread: at most one session is running at any time, it is the one the loop
\* variable is bound to, the calling thread is inside its run(), and every
\* earlier session has finished and no later one has started. Only the upload
\* tasks go to the pool.
C23_SessionsRunOneAfterAnother ==
    \A k \in 1..MaxSessions :
        /\ bOut.run[k] = "running" => (k = bOut.session /\ bOut.pc = "in_run")
        /\ k < bOut.session => bOut.run[k] = "finished"
        /\ k > bOut.session => bOut.run[k] = "pending"

\* A second session is running on the calling thread while the upload of the
\* first one is in progress in the pool.
C23_Witness ==
    /\ bOut.pc = "in_run"
    /\ bOut.session = 2
    /\ bOut.run[1] = "finished"
    /\ bOut.run[2] = "running"
    /\ bOut.tasks # <<>>
    /\ bOut.tasks[1].state = "uploading"

\* ---------------------------------------------------------------------------
\* Properties of the retry loop of get_response (SpecResponse)
\* ---------------------------------------------------------------------------

\* The calls whose response was received: all the calls made, but the one
\* that raised.
ReturnedCalls == IF gOut.pc = "raised" THEN gOut.calls - 1 ELSE gOut.calls

\* C24: in a step the number of model calls is the position of the first
\* response that parses and never more than the retry budget; after a response
\* that parses no further call is made; a model call that raises ends the
\* state at once, without a retry.
C24_CallsUpToFirstParsingResponse ==
    /\ gOut.calls <= JSON_PARSING_RETRY
    /\ gOut.parsed =>
          /\ gOut.pc # "loop"
          /\ gOut.calls = FirstParsing(gIn.resp)
    /\ (gOut.pc = "raised") =>
          /\ gOut.calls = gIn.raiseAt
          /\ gOut.retry = gOut.calls - 1
          /\ ~gOut.parsed
    /\ (gOut.pc = "returned" /\ ~gOut.parsed) =>
          /\ gOut.calls = JSON_PARSING_RETRY
          /\ \A i \in 1..gOut.calls : ~gIn.resp[i]

\* The third response is the first that parses: three calls were made and the
\* state returned.
C24_Witness ==
    /\ gOut.pc = "returned"
    /\ gOut.parsed
    /\ gOut.calls = 3
    /\ gIn.resp[4]

\* C29: when get_response makes several model calls in a step, the Cost of
\* the step record is the cost of the last call that returned; the costs of
\* the earlier calls are not added to it.
C29_CostIsLastCallOnly ==
    (gOut.recorded /\ ReturnedCalls >= 1) =>
        gOut.Cost = gIn.costs[ReturnedCalls]

\* Three calls of costs 1, 1 and 2 were made and the record holds 2.
C29_Witness ==
    /\ gOut.recorded
    /\ gOut.calls = 3
    /\ gOut.parsed
    /\ gIn.costs[1] = 1
    /\ gIn.costs[2] = 1
    /\ gIn.costs[3] = 2
    /\ gOut.Cost = 2

\* ---------------------------------------------------------------------------
\* Properties of _get_api_affected_coordinates (SpecApi)
\* ---------------------------------------------------------------------------

\* C25: _get_api_affected_coordinates never raises: whatever the function name
\* and the args (a string, missing keys, an empty table, a column given as
\* letters) it returns a list, which is empty for every function other than
\* the six range functions and, for those six, empty or a single rectangle.
C25_NeverRaisesEmptyOrOneRectangle ==
    aOut.called =>
        /\ ~aOut.raised
        /\ Len(aOut.rects) <= 1
        /\ aIn.function \notin RangeFunctions => aOut.rects = <<>>

\* auto_fill with its columns given as letters returned one rectangle, and
\* select_table_range with the same letters would have returned none.
C25_Witness ==
    /\ aOut.called
    /\ aIn.function = "auto_fill"
    /\ aIn.args.start_col = StrVal(<<"B">>)
    /\ Len(aOut.rects) = 1
    /\ ExcelRangeBody(aIn.args, aIn.env).raised

\* C30: every rectangle _get_excel_columns_coordinates returns for
\* reorder_columns, from matched header cells or as the estimate of the whole
\* worksheet, is well formed and inside the window: left < right, top < bottom,
\* 0 <= left, 0 <= top, right <= width and bottom <= height.
C30_ColumnRectanglesInsideWindow ==
    (aOut.called /\ aIn.function = "reorder_columns") =>
        \A i \in DOMAIN aOut.rects :
            LET r == aOut.rects[i]
                w == aIn.env.app_rect
            IN  /\ r.left < r.right
                /\ r.top < r.bottom
                /\ 0 <= r.left
                /\ 0 <= r.top
                /\ r.right <= w.width
                /\ r.bottom <= w.height

\* ---------------------------------------------------------------------------
\* Properties of capture_screenshot on the shared configuration (SpecConfig)
\* ---------------------------------------------------------------------------

\* C28: capture_screenshot leaves the CONTROL_LIST of the shared configuration
\* equal to its value before the call, also when the build of the API
\* annotation dictionary raises.
C28_ControlListRestored ==
    uOut.calls > 0 => configs.CONTROL_LIST = uOut.before

\* ---------------------------------------------------------------------------
\* Properties of _infer_cell_position (SpecInfer)
\* ---------------------------------------------------------------------------

\* The text of the control without blanks around it and in upper case, and the
\* number of letters it starts with.
AddressText == Upper(Strip(eIn.control.text))
AddressLetters == LetterPrefixLen(AddressText)

\* The text is a cell address: at most 10 characters, one or more letters and
\* then one or more digits.
IsAddressText ==
    /\ Len(eIn.control.text) <= 10
    /\ AddressLetters >= 1
    /\ AddressLetters < Len(AddressText)
    /\ \A i \in (AddressLetters + 1)..Len(AddressText) : IsDigit(AddressText[i])

RECURSIVE PowerOf(_, _)
PowerOf(base, n) == IF n = 0 THEN 1 ELSE base * PowerOf(base, n - 1)

RECURSIVE SumOver(_, _)
SumOver(f, S) ==
    IF S = {} THEN 0 ELSE LET x == CHOOSE y \in S : TRUE IN f[x] + SumOver(f, S \ {x})

\* The number of the column named by the letters (A = 1, Z = 26, AA = 27) and
\* the number written by the digits.
AddressColumn ==
    SumOver([i \in 1..AddressLetters |->
                LetterValue(AddressText[i]) * PowerOf(26, AddressLetters - i)],
            1..AddressLetters)
AddressRow ==
    SumOver([i \in (AddressLetters + 1)..Len(AddressText) |->
                DigitValue(AddressText[i]) * PowerOf(10, Len(AddressText) - i)],
            (AddressLetters + 1)..Len(AddressText))

\* The control lies left of or above the origin of the worksheet.
OutsideWorksheet ==
    \/ eIn.control.rect.left - eIn.app_rect.left < eIn.layout.worksheet_left
    \/ eIn.control.rect.top - eIn.app_rect.top < eIn.layout.worksheet_top

\* C26: _infer_cell_position gives an address in the text precedence over the
\* geometry: for a text of letters followed by digits (at most 10 characters,
\* in either case) it returns the row and the number of the column whatever
\* the rectangle; otherwise it projects the rectangle through the layout and
\* returns None for a control left of or above the worksheet origin and else a
\* pair with row >= 1 and col >= 1.
C26_AddressTextBeforeGeometry ==
    eOut.called =>
        IF IsAddressText
          THEN eOut.pos = <<AddressRow, AddressColumn>>
          ELSE IF OutsideWorksheet
            THEN eOut.pos = <<>>
            ELSE /\ eOut.pos # <<>>
                 /\ eOut.pos[1] >= 1
                 /\ eOut.pos[2] >= 1

\* The control reads "b2" and lies where the layout has another cell: the
\* position returned is row 2, column 2 and not the projection.
C26_Witness ==
    /\ eOut.called
    /\ eIn.control.text = <<"b", "2">>
    /\ eOut.pos = <<2, 2>>
    /\ ~OutsideWorksheet
    /\ InferPositionFromCoordinates(eIn.control, eIn.app_rect, eIn.layout) # <<2, 2>>

\* ---------------------------------------------------------------------------
\* Properties of update_memory (SpecRecord)
\* ---------------------------------------------------------------------------

\* C27: for every step, the record appended to the structural log of the
\* session and the record the agent memory holds for the step carry the same
\* UserConfirm, whatever the status of the step and whether it was resumed.
C27_SameUserConfirmInLogAndMemory ==
    \A i \in DOMAIN structuralLogs :
        structuralLogs[i].UserConfirm = memoryItems[agentMemory[i]].UserConfirm

====
